---- MODULE Spec2Model ----
(***************************************************************************)
(* Instagram trending-hashtag scraper (src/main.py): configuration         *)
(* validation, hashtag discovery on the explore page, engagement           *)
(* aggregation, TrendRecord construction, the select-then-insert/update    *)
(* upsert into the "instagram" table, and the run orchestration.           *)
(*                                                                         *)
(* Text is modelled as a sequence of characters (one-character strings),   *)
(* so that len(), str.lower(), str.isdigit() and the substring test are    *)
(* computed rather than assumed.                                           *)
(***************************************************************************)
EXTENDS Integers, Sequences, FiniteSets, TLC

(***************************************************************************)
(* Bounds of the model.                                                    *)
(***************************************************************************)
\* number of runs of run_scraper_job that one behaviour follows
MaxRuns == 2
\* number of post links found on the explore page in the discovery study
MaxPosts == 3
\* largest POSTS_PER_HASHTAG, and so the most posts visited for one hashtag,
\* in the loop study
MaxSample == 2
\* largest frequency of the hashtag of the loop study
MaxFrequency == 4
\* number of words a hashtag of the category study is made of
MaxWords == 2
\* number of pipeline instances that save to the table side by side
MaxRunners == 2
\* largest SCHEDULE_HOURS of the schedule study
MaxScheduleHours == 6
\* hours the schedule study follows the scheduler's clock for
MaxClock == 48

(***************************************************************************)
(* Sequence helpers.                                                       *)
(***************************************************************************)
Min(a, b) == IF a <= b THEN a ELSE b

\* s[:n] of Python, for n >= 0
Take(s, n) == SubSeq(s, 1, Min(Len(s), n))

\* [x] * n
Repeat(x, n) == [i \in 1..n |-> x]

RECURSIVE Flatten(_)
Flatten(ss) == IF ss = <<>> THEN <<>> ELSE Head(ss) \o Flatten(Tail(ss))

RECURSIVE SumSeq(_)
SumSeq(s) == IF s = <<>> THEN 0 ELSE Head(s) + SumSeq(Tail(s))

\* the indices, in order, at which the sequence of booleans holds TRUE
SelectIdx(flags) ==
  LET F[i \in 0..Len(flags)] ==
        IF i = 0 THEN <<>>
        ELSE IF flags[i] THEN Append(F[i-1], i) ELSE F[i-1]
  IN F[Len(flags)]

(***************************************************************************)
(* Characters and the str methods the program uses.                        *)
(***************************************************************************)
DigitChars == {"0", "1", "2", "3", "4", "5", "6", "7", "8", "9"}

\* the lowercase forms of the ASCII capitals
AsciiLower ==
  "A" :> "a" @@ "B" :> "b" @@ "C" :> "c" @@ "D" :> "d" @@ "E" :> "e" @@ "F" :> "f" @@
  "G" :> "g" @@ "H" :> "h" @@ "I" :> "i" @@ "J" :> "j" @@ "K" :> "k" @@ "L" :> "l" @@
  "M" :> "m" @@ "N" :> "n" @@ "O" :> "o" @@ "P" :> "p" @@ "Q" :> "q" @@ "R" :> "r" @@
  "S" :> "s" @@ "T" :> "t" @@ "U" :> "u" @@ "V" :> "v" @@ "W" :> "w" @@ "X" :> "x" @@
  "Y" :> "y" @@ "Z" :> "z"

\* str.lower() of one character.  Lowercasing is not length preserving in
\* Python: U+0130 (capital I with dot above) lowercases to the two code points
\* U+0069 U+0307.
LowerChar(c) ==
  IF c = "U+0130" THEN <<"i", "U+0307">>
  ELSE IF c \in DOMAIN AsciiLower THEN <<AsciiLower[c]>>
  ELSE <<c>>

\* tag.lower()
Lower(tag) == Flatten([i \in 1..Len(tag) |-> LowerChar(tag[i])])

\* tag.isdigit(): non-empty and every character a digit
IsDigit(tag) == Len(tag) > 0 /\ \A i \in 1..Len(tag) : tag[i] \in DigitChars

\* keyword in text (substring test)
Contains(keyword, text) ==
  \E i \in 0..(Len(text) - Len(keyword)) :
     SubSeq(text, i + 1, i + Len(keyword)) = keyword

(***************************************************************************)
(* Hashtag categories.                                                     *)
(***************************************************************************)
HASHTAG_CATEGORIES ==
  <<
    [category |-> "fashion", keywords |-> <<
        <<"f","a","s","h","i","o","n">>, <<"s","t","y","l","e">>, <<"o","o","t","d">>,
        <<"o","u","t","f","i","t">>, <<"f","a","s","h","i","o","n","i","s","t","a">>,
        <<"s","t","y","l","i","s","h">>, <<"b","e","a","u","t","y">>,
        <<"m","a","k","e","u","p">>, <<"c","l","o","t","h","i","n","g">>,
        <<"d","r","e","s","s">>, <<"s","h","o","e","s">>,
        <<"a","c","c","e","s","s","o","r","i","e","s">> >>],
    [category |-> "fitness", keywords |-> <<
        <<"f","i","t","n","e","s","s">>, <<"g","y","m">>, <<"w","o","r","k","o","u","t">>,
        <<"h","e","a","l","t","h">>, <<"f","i","t">>, <<"e","x","e","r","c","i","s","e">>,
        <<"t","r","a","i","n","i","n","g">>, <<"m","u","s","c","l","e">>,
        <<"b","o","d","y","b","u","i","l","d","i","n","g">>, <<"y","o","g","a">>,
        <<"r","u","n","n","i","n","g">>, <<"c","y","c","l","i","n","g">> >>],
    [category |-> "food", keywords |-> <<
        <<"f","o","o","d">>, <<"f","o","o","d","i","e">>, <<"c","o","o","k","i","n","g">>,
        <<"r","e","c","i","p","e">>, <<"d","e","l","i","c","i","o","u","s">>,
        <<"y","u","m","m","y">>, <<"i","n","s","t","a","f","o","o","d">>,
        <<"f","o","o","d","p","o","r","n">>, <<"c","h","e","f">>,
        <<"r","e","s","t","a","u","r","a","n","t">>, <<"d","i","n","n","e","r">>,
        <<"l","u","n","c","h">>, <<"b","r","e","a","k","f","a","s","t">> >>],
    [category |-> "travel", keywords |-> <<
        <<"t","r","a","v","e","l">>, <<"w","a","n","d","e","r","l","u","s","t">>,
        <<"v","a","c","a","t","i","o","n">>, <<"a","d","v","e","n","t","u","r","e">>,
        <<"e","x","p","l","o","r","e">>, <<"t","r","i","p">>,
        <<"t","o","u","r","i","s","m">>, <<"b","e","a","c","h">>,
        <<"n","a","t","u","r","e">>, <<"m","o","u","n","t","a","i","n","s">>,
        <<"t","r","a","v","e","l","g","r","a","m">> >>],
    [category |-> "technology", keywords |-> <<
        <<"t","e","c","h">>, <<"t","e","c","h","n","o","l","o","g","y">>,
        <<"g","a","d","g","e","t">>, <<"i","n","n","o","v","a","t","i","o","n">>,
        <<"d","i","g","i","t","a","l">>, <<"c","o","d","i","n","g">>,
        <<"p","r","o","g","r","a","m","m","i","n","g">>, <<"a","i">>,
        <<"s","o","f","t","w","a","r","e">>, <<"h","a","r","d","w","a","r","e">>,
        <<"a","p","p">> >>],
    [category |-> "business", keywords |-> <<
        <<"b","u","s","i","n","e","s","s">>,
        <<"e","n","t","r","e","p","r","e","n","e","u","r">>, <<"s","t","a","r","t","u","p">>,
        <<"m","a","r","k","e","t","i","n","g">>, <<"f","i","n","a","n","c","e">>,
        <<"i","n","v","e","s","t","i","n","g">>, <<"m","o","n","e","y">>,
        <<"s","u","c","c","e","s","s">>, <<"m","o","t","i","v","a","t","i","o","n">>,
        <<"h","u","s","t","l","e">> >>],
    [category |-> "entertainment", keywords |-> <<
        <<"e","n","t","e","r","t","a","i","n","m","e","n","t">>, <<"m","o","v","i","e">>,
        <<"m","u","s","i","c">>, <<"c","e","l","e","b","r","i","t","y">>,
        <<"a","r","t","i","s","t">>, <<"a","c","t","o","r">>, <<"s","i","n","g","e","r">>,
        <<"c","o","n","c","e","r","t">>, <<"f","i","l","m">>, <<"s","h","o","w">>,
        <<"v","i","r","a","l">>, <<"t","r","e","n","d","i","n","g">>,
        <<"f","u","n","n","y">>, <<"m","e","m","e">> >>],
    [category |-> "lifestyle", keywords |-> <<
        <<"l","i","f","e","s","t","y","l","e">>, <<"l","i","f","e">>,
        <<"h","a","p","p","y">>, <<"l","o","v","e">>,
        <<"i","n","s","t","a","g","o","o","d">>,
        <<"p","h","o","t","o","o","f","t","h","e","d","a","y">>,
        <<"p","i","c","o","f","t","h","e","d","a","y">>,
        <<"i","n","s","t","a","g","r","a","m">>, <<"i","n","s","t","a">>,
        <<"d","a","i","l","y">>, <<"i","n","s","p","i","r","a","t","i","o","n">> >>],
    [category |-> "photography", keywords |-> <<
        <<"p","h","o","t","o","g","r","a","p","h","y">>, <<"p","h","o","t","o">>,
        <<"p","h","o","t","o","g","r","a","p","h","e","r">>, <<"c","a","m","e","r","a">>,
        <<"p","o","r","t","r","a","i","t">>, <<"l","a","n","d","s","c","a","p","e">>,
        <<"a","r","t">>, <<"c","r","e","a","t","i","v","e">>,
        <<"p","h","o","t","o","s","h","o","o","t">> >>],
    [category |-> "sports", keywords |-> <<
        <<"s","p","o","r","t","s">>, <<"f","o","o","t","b","a","l","l">>,
        <<"s","o","c","c","e","r">>, <<"b","a","s","k","e","t","b","a","l","l">>,
        <<"c","r","i","c","k","e","t">>, <<"t","e","n","n","i","s">>,
        <<"a","t","h","l","e","t","e">>, <<"g","a","m","e">>, <<"p","l","a","y","e","r">>,
        <<"t","e","a","m">>, <<"c","h","a","m","p","i","o","n","s","h","i","p">> >>]
  >>

\* a categorizer that lets the last matching category of the table win
categorize_hashtag_last(hashtag) ==
  LET hashtag_lower == Lower(hashtag)
      hit(c) == \E k \in 1..Len(c.keywords) : Contains(c.keywords[k], hashtag_lower)
      hits == SelectIdx([n \in 1..Len(HASHTAG_CATEGORIES) |-> hit(HASHTAG_CATEGORIES[n])])
  IN IF hits = <<>> THEN "general" ELSE HASHTAG_CATEGORIES[hits[Len(hits)]].category

\* categorize_hashtag: first category, in table order, one of whose keywords
\* occurs in the lowercased tag; 'general' when there is none
categorize_hashtag(hashtag) ==
  LET hashtag_lower == Lower(hashtag)
      hit(c) == \E k \in 1..Len(c.keywords) : Contains(c.keywords[k], hashtag_lower)
      hits == SelectIdx([n \in 1..Len(HASHTAG_CATEGORIES) |-> hit(HASHTAG_CATEGORIES[n])])
  IN IF hits = <<>> THEN "general" ELSE HASHTAG_CATEGORIES[hits[1]].category

(***************************************************************************)
(* Discovery: discover_trending_hashtags.                                  *)
(*                                                                         *)
(* A post link of the explore page is [href, alt_tags, readable]: href is  *)
(* the link's href attribute, alt_tags is re.findall(r'#(\w+)', alt_text)  *)
(* in order, and readable is FALSE when reading the link's attributes      *)
(* raises.  A Python dict is a sequence of [key, value] entries in         *)
(* insertion order, which is the order Counter.items() iterates in.        *)
(***************************************************************************)
HasKey(dict, k) == \E i \in 1..Len(dict) : dict[i].key = k

Lookup(dict, k) == dict[CHOOSE i \in 1..Len(dict) : dict[i].key = k].value

\* dict[k] = v: an existing key keeps its position, a new key goes last
Store(dict, k, v) ==
  IF HasKey(dict, k)
  THEN [i \in 1..Len(dict) |-> IF dict[i].key = k THEN [key |-> k, value |-> v] ELSE dict[i]]
  ELSE Append(dict, [key |-> k, value |-> v])

\* the filter of the tally loop: 3 <= len(tag) <= 30 and not tag.isdigit()
AcceptTag(tag) == 3 <= Len(tag) /\ Len(tag) <= 30 /\ ~IsDigit(tag)

\* a tally that lists a post once for a tag however often its text holds the tag
TallyTagOncePerPost(st, tag, post_url) ==
  IF AcceptTag(tag)
  THEN LET normalized_tag == Lower(tag)
           count == IF HasKey(st.hashtag_counter, normalized_tag)
                    THEN Lookup(st.hashtag_counter, normalized_tag) ELSE 0
           posts == IF HasKey(st.post_hashtags_map, normalized_tag)
                    THEN Lookup(st.post_hashtags_map, normalized_tag) ELSE <<>>
           listed == \E k \in 1..Len(posts) : posts[k] = post_url
       IN [hashtag_counter |-> Store(st.hashtag_counter, normalized_tag, count + 1),
           post_hashtags_map |-> Store(st.post_hashtags_map, normalized_tag,
                                       IF listed THEN posts ELSE Append(posts, post_url))]
  ELSE st

\* one iteration of "for tag in hashtags" on the state [hashtag_counter, post_hashtags_map]
TallyTag(st, tag, post_url) ==
  IF AcceptTag(tag)
  THEN LET normalized_tag == Lower(tag)
           count == IF HasKey(st.hashtag_counter, normalized_tag)
                    THEN Lookup(st.hashtag_counter, normalized_tag) ELSE 0
           posts == IF HasKey(st.post_hashtags_map, normalized_tag)
                    THEN Lookup(st.post_hashtags_map, normalized_tag) ELSE <<>>
       IN [hashtag_counter |-> Store(st.hashtag_counter, normalized_tag, count + 1),
           post_hashtags_map |-> Store(st.post_hashtags_map, normalized_tag,
                                       Append(posts, post_url))]
  ELSE st

RECURSIVE TallyTags(_, _, _)
TallyTags(st, hashtags, post_url) ==
  IF hashtags = <<>> THEN st
  ELSE TallyTags(TallyTag(st, Head(hashtags), post_url), Tail(hashtags), post_url)

\* "for idx, post_link in enumerate(post_links, 1)": a post whose attributes
\* cannot be read raises before its tags are looked at and is skipped
RECURSIVE TallyPosts(_, _)
TallyPosts(st, post_links) ==
  IF post_links = <<>> THEN st
  ELSE LET post == Head(post_links)
       IN TallyPosts(IF post.readable THEN TallyTags(st, post.alt_tags, post.href) ELSE st,
                     Tail(post_links))

\* a sort that puts an entry in front of the entries of equal count
InsertByCountUnstable(sorted, e) ==
  LET n == Cardinality({i \in 1..Len(sorted) : sorted[i].value > e.value})
  IN SubSeq(sorted, 1, n) \o <<e>> \o SubSeq(sorted, n + 1, Len(sorted))

\* sorted(..., key=itemgetter(1), reverse=True), one insertion: the entry goes
\* behind every entry whose count is at least its own (the sort is stable)
InsertByCount(sorted, e) ==
  LET n == Cardinality({i \in 1..Len(sorted) : sorted[i].value >= e.value})
  IN SubSeq(sorted, 1, n) \o <<e>> \o SubSeq(sorted, n + 1, Len(sorted))

\* Counter.most_common() with n = None
most_common(counter) ==
  LET F[i \in 0..Len(counter)] ==
        IF i = 0 THEN <<>> ELSE InsertByCount(F[i-1], counter[i])
  IN F[Len(counter)]

\* a frequency filter that drops the tags met exactly MIN_HASHTAG_FREQUENCY times
top_hashtags_above(counter, cfg) ==
  LET ranked == most_common(counter)
      enough(e) == e.value > cfg.MIN_HASHTAG_FREQUENCY
      kept == SelectIdx([n \in 1..Len(ranked) |-> enough(ranked[n])])
  IN Take([j \in 1..Len(kept) |-> ranked[kept[j]].key], cfg.TOP_HASHTAGS_TO_SAVE)

\* top_hashtags: the tags of most_common() with count >= MIN_HASHTAG_FREQUENCY,
\* cut to the first TOP_HASHTAGS_TO_SAVE
top_hashtags(counter, cfg) ==
  LET ranked == most_common(counter)
      enough(e) == e.value >= cfg.MIN_HASHTAG_FREQUENCY
      kept == SelectIdx([n \in 1..Len(ranked) |-> enough(ranked[n])])
  IN Take([j \in 1..Len(kept) |-> ranked[kept[j]].key], cfg.TOP_HASHTAGS_TO_SAVE)

\* a discovery that reports the size of the sample as posts_count
collect_sample_count(page_links, cfg) ==
  LET post_links == Take(page_links, cfg.POSTS_TO_SCAN)
      st == TallyPosts([hashtag_counter |-> <<>>, post_hashtags_map |-> <<>>], post_links)
      top == top_hashtags(st.hashtag_counter, cfg)
  IN [j \in 1..Len(top) |->
        LET tag == top[j]
            posts_using == Lookup(st.post_hashtags_map, tag)
        IN [hashtag |-> tag,
            frequency |-> Lookup(st.hashtag_counter, tag),
            posts_count |-> Len(Take(posts_using, cfg.POSTS_PER_HASHTAG)),
            sample_posts |-> Take(posts_using, cfg.POSTS_PER_HASHTAG),
            category |-> categorize_hashtag(tag)]]

\* the body of discover_trending_hashtags once the explore page has loaded
collect(page_links, cfg) ==
  LET post_links == Take(page_links, cfg.POSTS_TO_SCAN)
      st == TallyPosts([hashtag_counter |-> <<>>, post_hashtags_map |-> <<>>], post_links)
      top == top_hashtags(st.hashtag_counter, cfg)
  IN [j \in 1..Len(top) |->
        LET tag == top[j]
            posts_using == Lookup(st.post_hashtags_map, tag)
        IN [hashtag |-> tag,
            frequency |-> Lookup(st.hashtag_counter, tag),
            posts_count |-> Len(posts_using),
            sample_posts |-> Take(posts_using, cfg.POSTS_PER_HASHTAG),
            category |-> categorize_hashtag(tag)]]

\* discover_trending_hashtags: [] when navigating to the explore page or
\* waiting for its post links raises
discover_trending_hashtags(explore, cfg) ==
  IF explore.reachable THEN collect(explore.links, cfg) ELSE <<>>

(***************************************************************************)
(* Numbers.  A Python float is an exact nonnegative fraction [num, den] in *)
(* lowest terms; int(x) of a nonnegative x is its floor.                   *)
(***************************************************************************)
RECURSIVE GCD(_, _)
GCD(a, b) == IF b = 0 THEN a ELSE GCD(b, a % b)

Frac(n, d) == LET g == GCD(n, d) IN [num |-> n \div g, den |-> d \div g]

FracMul(x, y) == Frac(x.num * y.num, x.den * y.den)

\* int(x)
IntOf(x) == x.num \div x.den

(***************************************************************************)
(* Engagement: get_post_engagement and analyze_hashtag_engagement.         *)
(*                                                                         *)
(* What one visit of a post reads from the page is a record                *)
(*   [nav_ok, is_video, views, likes, comments]                            *)
(* (nav_ok FALSE: page.goto raises; a number 0: nothing was found), and    *)
(* the random draws of the visit are a record                              *)
(*   [likes, comments, views, total, mult]                                 *)
(* with mult the draw of random.uniform(15, 25) in tenths.                 *)
(***************************************************************************)
\* a visit that marks what it could not read with -1 instead of estimating it
get_post_engagement_unset(read, rnd) ==
  IF ~read.nav_ok
  THEN [likes |-> -1, comments |-> -1, views |-> -1,
        total_engagement |-> -1, is_video |-> FALSE]
  ELSE LET views0 == IF read.is_video THEN read.views ELSE 0
           estimated == read.likes = 0
           likes == IF estimated THEN -1 ELSE read.likes
           comments == IF estimated THEN -1 ELSE read.comments
           total_eng == likes + comments
           views == IF read.is_video /\ views0 = 0 THEN -1 ELSE views0
       IN [likes |-> likes, comments |-> comments, views |-> views,
           total_engagement |-> total_eng, is_video |-> read.is_video]

\* get_post_engagement: the visit of one post
get_post_engagement(read, rnd) ==
  IF ~read.nav_ok
  THEN \* the except branch: random but realistic values
       [likes |-> rnd.likes, comments |-> rnd.comments, views |-> rnd.views,
        total_engagement |-> rnd.total, is_video |-> FALSE]
  ELSE LET views0 == IF read.is_video THEN read.views ELSE 0
           estimated == read.likes = 0
           likes == IF estimated THEN rnd.likes ELSE read.likes
           comments == IF estimated THEN rnd.comments ELSE read.comments
           total_eng == likes + comments
           views == IF read.is_video /\ views0 = 0
                    THEN (total_eng * rnd.mult) \div 10
                    ELSE views0
       IN [likes |-> likes, comments |-> comments, views |-> views,
           total_engagement |-> total_eng, is_video |-> read.is_video]

\* a no-sample summary that does not depend on the frequency
FrequencySummaryFlat(frequency, total_engagement) ==
  [avg_likes |-> Frac(1000, 1),
   avg_comments |-> Frac(50, 1),
   avg_engagement |-> Frac(1050, 1),
   avg_views |-> Frac(20000, 1),
   total_engagement |-> Frac(total_engagement, 1),
   total_views |-> Frac(20000, 1),
   video_count |-> 0]

\* the summary of both no-sample branches but for total_engagement
FrequencySummary(frequency, total_engagement) ==
  [avg_likes |-> Frac(frequency * 1000, 1),
   avg_comments |-> Frac(frequency * 50, 1),
   avg_engagement |-> Frac(frequency * 1050, 1),
   avg_views |-> Frac(frequency * 20000, 1),
   total_engagement |-> Frac(total_engagement, 1),
   total_views |-> Frac(frequency * 20000, 1),
   video_count |-> 0]

\* "if not sample_posts": the summary returned before any post is visited
EmptySampleSummary(hashtag_data, sample_posts) ==
  FrequencySummary(hashtag_data.frequency,
                   IF sample_posts # <<>>
                   THEN hashtag_data.frequency * 1050 * Len(sample_posts)
                   ELSE 0)

\* "if not all_engagement": the summary returned when the visits left no sample
NoEngagementSummary(hashtag_data) ==
  FrequencySummary(hashtag_data.frequency, hashtag_data.frequency * 1050)

\* an aggregation that leaves out the posts whose page could not be read
analyze_hashtag_engagement_skip_unread(hashtag_data, cfg, visits, mult) ==
  LET sample_posts == Take(hashtag_data.sample_posts, cfg.POSTS_PER_HASHTAG)
      read == SelectIdx([k \in 1..Len(sample_posts) |-> visits[k].read.nav_ok])
      n == Len(read)
      engagement ==
        [k \in 1..n |-> get_post_engagement(visits[read[k]].read, visits[read[k]].rnd)]
      all_likes == [k \in 1..n |-> engagement[k].likes]
      all_comments == [k \in 1..n |-> engagement[k].comments]
      all_engagement == [k \in 1..n |-> engagement[k].total_engagement]
      is_video(k) == engagement[k].is_video
      videos == SelectIdx([k \in 1..n |-> is_video(k)])
      all_views == [j \in 1..Len(videos) |-> engagement[videos[j]].views]
      video_count == Len(videos)
  IN IF sample_posts = <<>>
     THEN EmptySampleSummary(hashtag_data, sample_posts)
     ELSE IF all_engagement = <<>>
     THEN NoEngagementSummary(hashtag_data)
     ELSE LET avg_engagement == Frac(SumSeq(all_engagement), Len(all_engagement))
              avg_views == IF all_views # <<>>
                           THEN Frac(SumSeq(all_views), Len(all_views))
                           ELSE FracMul(avg_engagement, Frac(mult, 10))
              total_views == IF all_views # <<>>
                             THEN Frac(SumSeq(all_views), 1)
                             ELSE FracMul(avg_views, Frac(Len(sample_posts), 1))
          IN [avg_likes |-> Frac(SumSeq(all_likes), Len(all_likes)),
              avg_comments |-> Frac(SumSeq(all_comments), Len(all_comments)),
              avg_engagement |-> avg_engagement,
              avg_views |-> avg_views,
              total_engagement |-> Frac(SumSeq(all_engagement), 1),
              total_views |-> total_views,
              video_count |-> video_count]

\* an aggregation that leaves avg_views at 0 when no sample is a video
analyze_hashtag_engagement_no_estimate(hashtag_data, cfg, visits, mult) ==
  LET sample_posts == Take(hashtag_data.sample_posts, cfg.POSTS_PER_HASHTAG)
      n == Len(sample_posts)
      engagement == [k \in 1..n |-> get_post_engagement(visits[k].read, visits[k].rnd)]
      all_likes == [k \in 1..n |-> engagement[k].likes]
      all_comments == [k \in 1..n |-> engagement[k].comments]
      all_engagement == [k \in 1..n |-> engagement[k].total_engagement]
      is_video(k) == engagement[k].is_video
      videos == SelectIdx([k \in 1..n |-> is_video(k)])
      all_views == [j \in 1..Len(videos) |-> engagement[videos[j]].views]
      video_count == Len(videos)
  IN IF sample_posts = <<>>
     THEN EmptySampleSummary(hashtag_data, sample_posts)
     ELSE IF all_engagement = <<>>
     THEN NoEngagementSummary(hashtag_data)
     ELSE LET avg_engagement == Frac(SumSeq(all_engagement), Len(all_engagement))
              avg_views == IF all_views # <<>>
                           THEN Frac(SumSeq(all_views), Len(all_views))
                           ELSE Frac(0, 1)
              total_views == IF all_views # <<>>
                             THEN Frac(SumSeq(all_views), 1)
                             ELSE FracMul(avg_views, Frac(n, 1))
          IN [avg_likes |-> Frac(SumSeq(all_likes), Len(all_likes)),
              avg_comments |-> Frac(SumSeq(all_comments), Len(all_comments)),
              avg_engagement |-> avg_engagement,
              avg_views |-> avg_views,
              total_engagement |-> Frac(SumSeq(all_engagement), 1),
              total_views |-> total_views,
              video_count |-> video_count]

\* analyze_hashtag_engagement; visits[k] = [read, rnd] is the visit of the
\* k-th sample post, mult the draw of random.uniform(15, 25) in tenths
analyze_hashtag_engagement(hashtag_data, cfg, visits, mult) ==
  LET sample_posts == Take(hashtag_data.sample_posts, cfg.POSTS_PER_HASHTAG)
      n == Len(sample_posts)
      engagement == [k \in 1..n |-> get_post_engagement(visits[k].read, visits[k].rnd)]
      all_likes == [k \in 1..n |-> engagement[k].likes]
      all_comments == [k \in 1..n |-> engagement[k].comments]
      all_engagement == [k \in 1..n |-> engagement[k].total_engagement]
      is_video(k) == engagement[k].is_video
      videos == SelectIdx([k \in 1..n |-> is_video(k)])
      all_views == [j \in 1..Len(videos) |-> engagement[videos[j]].views]
      video_count == Len(videos)
  IN IF sample_posts = <<>>
     THEN EmptySampleSummary(hashtag_data, sample_posts)
     ELSE IF all_engagement = <<>>
     THEN NoEngagementSummary(hashtag_data)
     ELSE LET avg_engagement == Frac(SumSeq(all_engagement), Len(all_engagement))
              avg_views == IF all_views # <<>>
                           THEN Frac(SumSeq(all_views), Len(all_views))
                           ELSE FracMul(avg_engagement, Frac(mult, 10))
              total_views == IF all_views # <<>>
                             THEN Frac(SumSeq(all_views), 1)
                             ELSE FracMul(avg_views, Frac(n, 1))
          IN [avg_likes |-> Frac(SumSeq(all_likes), Len(all_likes)),
              avg_comments |-> Frac(SumSeq(all_comments), Len(all_comments)),
              avg_engagement |-> avg_engagement,
              avg_views |-> avg_views,
              total_engagement |-> Frac(SumSeq(all_engagement), 1),
              total_views |-> total_views,
              video_count |-> video_count]

(***************************************************************************)
(* Configuration: class Config.                                            *)
(***************************************************************************)
\* a validation that lets a scraping parameter of 0 pass
validate_below_zero(c) ==
  IF c.USERNAME = "" \/ c.PASSWORD = "" THEN FALSE
  ELSE IF c.SUPABASE_URL = "" \/ c.SUPABASE_KEY = "" THEN FALSE
  ELSE IF c.SCROLL_COUNT < 0 \/ c.POSTS_TO_SCAN < 0 THEN FALSE
  ELSE TRUE

\* Config.validate; "not s" of a Python string is s == ""
validate(c) ==
  IF c.USERNAME = "" \/ c.PASSWORD = "" THEN FALSE
  ELSE IF c.SUPABASE_URL = "" \/ c.SUPABASE_KEY = "" THEN FALSE
  ELSE IF c.SCROLL_COUNT < 1 \/ c.POSTS_TO_SCAN < 1 THEN FALSE
  ELSE TRUE

(***************************************************************************)
(* TrendRecord and the upsert into the 'instagram' table.                  *)
(***************************************************************************)
\* datetime.isoformat()
isoformat(t) == [iso |-> t]

\* TrendRecord.from_instagram_data; utcnow is the value of datetime.utcnow()
from_instagram_data(hd, engagement_data, version_id, utcnow, c) ==
  [platform |-> "Instagram",
   url |-> [explore_tags |-> hd.hashtag],
   hashtags |-> << <<"#">> \o hd.hashtag >>,
   likes |-> IntOf(engagement_data.avg_likes),
   comments |-> IntOf(engagement_data.avg_comments),
   views |-> IntOf(engagement_data.avg_views),
   language |-> "en",
   timestamp |-> utcnow,
   engagement_score |-> engagement_data.avg_engagement,
   version |-> version_id,
   raw_blob |-> [category |-> hd.category,
                 frequency |-> hd.frequency,
                 posts_count |-> hd.posts_count,
                 sample_posts |-> hd.sample_posts,
                 discovery_method |-> "explore_page",
                 avg_likes |-> engagement_data.avg_likes,
                 avg_comments |-> engagement_data.avg_comments,
                 total_engagement |-> engagement_data.total_engagement,
                 total_views |-> engagement_data.total_views,
                 video_count |-> engagement_data.video_count,
                 posts_analyzed |-> c.POSTS_PER_HASHTAG,
                 total_posts_scanned |-> c.POSTS_TO_SCAN,
                 scroll_count |-> c.SCROLL_COUNT,
                 min_frequency_threshold |-> c.MIN_HASHTAG_FREQUENCY,
                 discovered_at |-> isoformat(utcnow)],
   first_seen |-> utcnow,
   last_seen |-> utcnow]

\* the payload save_to_supabase prepares from a TrendRecord
Payload(r) ==
  [platform |-> r.platform,
   topic_hashtag |-> r.hashtags[1],
   engagement_score |-> r.engagement_score,
   sentiment_polarity |-> 0,
   sentiment_label |-> "neutral",
   posts |-> r.raw_blob.posts_count,
   views |-> r.views,
   metadata |-> [url |-> r.url,
                 hashtags |-> r.hashtags,
                 likes |-> r.likes,
                 comments |-> r.comments,
                 language |-> r.language,
                 timestamp |-> isoformat(r.timestamp),
                 version |-> r.version,
                 first_seen |-> isoformat(r.first_seen),
                 last_seen |-> isoformat(r.last_seen),
                 raw_blob |-> r.raw_blob],
   scraped_at |-> isoformat(r.timestamp),
   version_id |-> r.version]

\* table.select('*').eq('topic_hashtag', key): the positions of the matching rows
SelectEq(rows, key) ==
  LET match(row) == row.topic_hashtag = key
  IN SelectIdx([k \in 1..Len(rows) |-> match(rows[k])])

\* an update that replaces every matching row by the payload
UpdateEqWholeRow(rows, key, payload) ==
  [k \in 1..Len(rows) |-> IF rows[k].topic_hashtag = key THEN payload ELSE rows[k]]

\* an update without its filter on the key
UpdateEqEveryRow(rows, key, payload) ==
  [k \in 1..Len(rows) |->
     [rows[k] EXCEPT !.engagement_score = payload.engagement_score,
                     !.posts = payload.posts,
                     !.views = payload.views,
                     !.metadata = payload.metadata,
                     !.scraped_at = payload.scraped_at,
                     !.version_id = payload.version_id]]

\* an update that adds the payload's posts to the stored count
UpdateEqAddPosts(rows, key, payload) ==
  [k \in 1..Len(rows) |->
     IF rows[k].topic_hashtag = key
     THEN [rows[k] EXCEPT !.engagement_score = payload.engagement_score,
                          !.posts = @ + payload.posts,
                          !.views = payload.views,
                          !.metadata = payload.metadata,
                          !.scraped_at = payload.scraped_at,
                          !.version_id = payload.version_id]
     ELSE rows[k]]

\* table.update({...}).eq('topic_hashtag', key): the six columns of every matching row
UpdateEq(rows, key, payload) ==
  [k \in 1..Len(rows) |->
     IF rows[k].topic_hashtag = key
     THEN [rows[k] EXCEPT !.engagement_score = payload.engagement_score,
                          !.posts = payload.posts,
                          !.views = payload.views,
                          !.metadata = payload.metadata,
                          !.scraped_at = payload.scraped_at,
                          !.version_id = payload.version_id]
     ELSE rows[k]]

\* table.insert(payload)
Insert(rows, payload) == Append(rows, payload)

\* an upsert that inserts without looking the key up
UpsertAlwaysInsert(rows, existing, payload) == Insert(rows, payload)

\* the write of the upsert: update when the lookup found rows, else insert
UpsertWrite(rows, existing, payload) ==
  IF existing # <<>>
  THEN UpdateEq(rows, payload.topic_hashtag, payload)
  ELSE Insert(rows, payload)

\* The try block of save_to_supabase.  db = [select, write] is what the store
\* does with the two requests: select "ok" or "raise"; write "ok" (applied, data
\* returned), "no_data" (not applied, empty data), "raise" (not applied) or
\* "raise_applied" (applied, but the response is lost and the call raises).
\* outcome is "True", "False" or "raise".
SaveTry(rows, trend_record, db) ==
  IF db.select = "raise" THEN [rows |-> rows, outcome |-> "raise", wrote |-> FALSE]
  ELSE LET existing_trend == SelectEq(rows, trend_record.hashtags[1])
           payload == Payload(trend_record)
           applied == db.write \in {"ok", "raise_applied"}
           after == IF applied THEN UpsertWrite(rows, existing_trend, payload) ELSE rows
       IN [rows |-> after,
           outcome |-> CASE db.write = "ok" -> "True"
                         [] db.write = "no_data" -> "False"
                         [] OTHER -> "raise",
           wrote |-> applied]

\* the first request of save_to_supabase: the rows the lookup of the record's
\* key returns
SaveSelect(rows, trend_record) == SelectEq(rows, trend_record.hashtags[1])

\* a second request that looks the key up again in the table it writes to
SaveWriteRechecked(rows, existing_trend, trend_record, write) ==
  IF write \in {"ok", "raise_applied"}
  THEN UpsertWrite(rows, SaveSelect(rows, trend_record), Payload(trend_record))
  ELSE rows

\* the second request of save_to_supabase: the update or the insert, chosen by
\* what the lookup returned earlier, on the table as it is now
SaveWrite(rows, existing_trend, trend_record, write) ==
  IF write \in {"ok", "raise_applied"}
  THEN UpsertWrite(rows, existing_trend, Payload(trend_record))
  ELSE rows

\* save_to_supabase without its except clause
SaveReraise(rows, trend_record, db) == SaveTry(rows, trend_record, db)

\* save_to_supabase: "except Exception" turns every raise into False
save_to_supabase(rows, trend_record, db) ==
  LET r == SaveTry(rows, trend_record, db)
  IN [r EXCEPT !.outcome = IF r.outcome = "raise" THEN "False" ELSE r.outcome]

(***************************************************************************)
(* The per-hashtag loop body of save_trends_to_database.                   *)
(***************************************************************************)
\* The try block of one iteration.  fault = "raise" is an exception raised
\* inside the block before the save; utcnow is the clock value the record
\* builder reads.  outcome: "True"/"False" (what save_to_supabase returned) or
\* "raise" (the block raised); summary and record hold the engagement summary
\* and the TrendRecord of the block when it got as far as building them.
TryBlock(rows, hd, c, version_id, utcnow, visits, mult, db, fault) ==
  IF fault = "raise"
  THEN [rows |-> rows, outcome |-> "raise", built |-> FALSE, raised_by |-> "analysis",
        summary |-> <<>>, record |-> <<>>]
  ELSE LET engagement_data == analyze_hashtag_engagement(hd, c, visits, mult)
           trend_record == from_instagram_data(hd, engagement_data, version_id, utcnow, c)
           r == save_to_supabase(rows, trend_record, db)
       IN [rows |-> r.rows, outcome |-> r.outcome, built |-> TRUE, raised_by |-> "save",
           summary |-> <<engagement_data>>, record |-> <<trend_record>>]

\* a loop body without its except clause
CaughtNothing(outcome) == outcome # "raise"

\* "except Exception as e" of the loop body: whatever the try block raises is
\* caught
Caught(outcome) == TRUE

\* a loop body that leaves a raising iteration out of the tallies
TalliesSkipRaise(t, hd, outcome, summary) ==
  IF outcome = "True"
  THEN [t EXCEPT !.successful = @ + 1,
                 !.saved_hashtags = Append(@, summary[1] @@ hd)]
  ELSE IF outcome = "False"
  THEN [t EXCEPT !.failed = @ + 1,
                 !.errors = Append(@, [hashtag |-> hd.hashtag,
                                       reason |-> "Database save failed"])]
  ELSE t

\* the tallies t = [successful, failed, saved_hashtags, errors] after an
\* iteration: "if success" / "else" of the try block, and the except clause
Tallies(t, hd, outcome, summary) ==
  IF outcome = "True"
  THEN [t EXCEPT !.successful = @ + 1,
                 !.saved_hashtags = Append(@, summary[1] @@ hd)]
  ELSE [t EXCEPT !.failed = @ + 1,
                 !.errors = Append(@, [hashtag |-> hd.hashtag,
                                       reason |-> IF outcome = "False"
                                                  THEN "Database save failed"
                                                  ELSE "exception"])]

\* a loop that goes through a hashtag again until it is saved
IndexAfterRetry(idx, outcome, n) == IF outcome = "True" THEN idx + 1 ELSE idx

\* a loop that stops at the first hashtag that is not saved
IndexAfterAbort(idx, outcome, n) == IF outcome = "True" THEN idx + 1 ELSE n + 1

\* "for i, hashtag_data in enumerate(hashtag_data_list, 1)": the index after an
\* iteration, whatever its outcome
IndexAfter(idx, outcome, n) == idx + 1

(***************************************************************************)
(* Inputs the environment supplies.                                        *)
(***************************************************************************)
TagCat == <<"c", "a", "t">>
TagCatUpper == <<"C", "a", "t">>
TagDog == <<"d", "o", "g">>
TagArt == <<"a", "r", "t">>
TagShort == <<"a", "b">>
TagDigits == <<"1", "2", "3">>
TagLen30 == Repeat("x", 30)
TagLen31 == Repeat("x", 31)
TagDotI30 == <<"U+0130">> \o Repeat("x", 29)

Link(href, alt_tags) == [href |-> href, alt_tags |-> alt_tags, readable |-> TRUE]

\* the explore pages a run of the pipeline may meet
ExplorePages ==
  { [reachable |-> TRUE,
     links |-> << Link(1, <<TagCat>>), Link(2, <<TagCatUpper, TagDog>>) >>],
    [reachable |-> TRUE, links |-> << Link(1, <<TagShort, TagDigits>>) >>],
    [reachable |-> FALSE, links |-> <<>>] }

\* random draws at the ends of their ranges: randint(500, 8000), randint(20, 300),
\* randint(10000, 100000), randint(520, 8300), uniform(15, 25) in tenths
RndLow == [likes |-> 500, comments |-> 20, views |-> 10000, total |-> 520, mult |-> 150]
RndHigh == [likes |-> 8000, comments |-> 300, views |-> 100000, total |-> 8300, mult |-> 250]

ReadPhoto == [nav_ok |-> TRUE, is_video |-> FALSE, views |-> 0, likes |-> 1200, comments |-> 4]
ReadVideo == [nav_ok |-> TRUE, is_video |-> TRUE, views |-> 9000, likes |-> 1200, comments |-> 4]
ReadNavFail == [nav_ok |-> FALSE, is_video |-> FALSE, views |-> 0, likes |-> 0, comments |-> 0]

\* a video whose page shows no view count, and a photo whose like count is
\* not found
ReadVideoNoViews ==
  [nav_ok |-> TRUE, is_video |-> TRUE, views |-> 0, likes |-> 1200, comments |-> 4]
ReadNoLikes == [nav_ok |-> TRUE, is_video |-> FALSE, views |-> 0, likes |-> 0, comments |-> 7]

\* draws inside their ranges; the draw for total_engagement of the except
\* branch is independent of the draws for likes and comments
RndMixed == [likes |-> 8000, comments |-> 300, views |-> 10000, total |-> 520, mult |-> 173]

\* the post visits and multiplier draws a run of the pipeline may meet
PipelineVisits == { [read |-> ReadPhoto, rnd |-> RndLow], [read |-> ReadNavFail, rnd |-> RndHigh] }
PipelineMults == {150}

DbOutcomes ==
  { [select |-> "raise", write |-> "ok"] } \cup
  { [select |-> "ok", write |-> w] : w \in {"ok", "no_data", "raise", "raise_applied"} }

BaseConfig ==
  [USERNAME |-> "user", PASSWORD |-> "secret",
   SCROLL_COUNT |-> 1, POSTS_TO_SCAN |-> 400,
   MIN_HASHTAG_FREQUENCY |-> 1, TOP_HASHTAGS_TO_SAVE |-> 10, POSTS_PER_HASHTAG |-> 3,
   SUPABASE_URL |-> "https://project.supabase.co", SUPABASE_KEY |-> "key",
   SCHEDULE_HOURS |-> 3]

\* the configurations a process may start with: each credential blank or
\* set (the user name also a single space), the two scraping parameters
\* below, at and above 1
Configs ==
  { [BaseConfig EXCEPT !.USERNAME = u, !.PASSWORD = pw, !.SUPABASE_URL = url,
                       !.SUPABASE_KEY = key, !.SCROLL_COUNT = sc, !.POSTS_TO_SCAN = ps] :
      u \in {"", " ", "user"}, pw \in {"", "secret"},
      url \in {"", "https://project.supabase.co"}, key \in {"", "key"},
      sc \in {-1, 0, 1}, ps \in {0, 400} }

(***************************************************************************)
(* State.                                                                  *)
(***************************************************************************)
VARIABLES
  cfg,            \* the Config class attributes of the process
  entry,          \* "main": started through main(); "job": run_scraper_job is called directly
  main_pc,        \* main(): "start", "run_once", "scheduled", "exited"
  exit_code,      \* the process's exit status, -1 while it runs
  phase,          \* position of run_scraper_job
  stop,           \* why the last run returned, "" while none has
  runs,           \* runs of run_scraper_job started so far
  VERSION_ID,     \* the global VERSION_ID, 0 for its initial ""
  uuids,          \* uuid4 values drawn so far; the next draw is uuids + 1
  now,            \* the last value datetime.utcnow() returned to the record builder
  rows,           \* the rows of the 'instagram' table
  browser,        \* [open, closes]: the browser is running; browser.close() calls of the run
  explore,        \* the explore page of the current run
  hashtag_data,   \* the list discovery returned
  i,              \* the loop index of save_trends_to_database
  successful, failed, saved_hashtags, errors,
  logged_in,      \* login_instagram returned True in this run
  rows_at_start,  \* history: the table when the current run started
  minted,         \* history: minted[r] is the sequence of ids run r minted
  written,        \* history: [run, key, version_id, metadata_version] of every row written
  attempted,      \* history: the hashtags whose iteration began in this run, in order
  last_save,      \* history: the save_to_supabase call of the last iteration, <<>> if none
  last_analysis,  \* history: input, summary and record of the last iteration that built one
  first_insert,   \* history: [key, first_seen] of the first insert of each key
  runners,        \* the pipeline instances saving to the table side by side, <<>> if one
  scheduler       \* the BlockingScheduler of main(): its trigger and clock, <<>> if none

vars ==
  << cfg, entry, main_pc, exit_code, phase, stop, runs, VERSION_ID, uuids, now, rows,
     browser, explore, hashtag_data, i, successful, failed, saved_hashtags, errors,
     logged_in, rows_at_start, minted, written, attempted, last_save, last_analysis,
     first_insert, runners, scheduler >>

NoPage == [reachable |-> FALSE, links |-> <<>>]

process_vars == << cfg, entry, main_pc, exit_code >>
loop_vars ==
  << hashtag_data, i, successful, failed, saved_hashtags, errors, attempted, last_save,
     last_analysis >>
store_vars == << rows, written, first_insert, now >>
beside_vars == << runners, scheduler >>

\* one pipeline instance, no scheduler running
Alone == runners = <<>> /\ scheduler = <<>>

\* the state before run_scraper_job is first called
Fresh ==
  /\ exit_code = -1
  /\ phase = "Idle"
  /\ stop = ""
  /\ runs = 0
  /\ VERSION_ID = 0
  /\ uuids = 0
  /\ now = 0
  /\ rows = <<>>
  /\ browser = [open |-> FALSE, closes |-> 0]
  /\ explore = NoPage
  /\ hashtag_data = <<>>
  /\ i = 0
  /\ successful = 0
  /\ failed = 0
  /\ saved_hashtags = <<>>
  /\ errors = <<>>
  /\ logged_in = FALSE
  /\ rows_at_start = <<>>
  /\ minted = <<>>
  /\ written = {}
  /\ attempted = <<>>
  /\ last_save = <<>>
  /\ last_analysis = <<>>
  /\ first_insert = {}

Init ==
  /\ cfg \in Configs
  /\ entry \in {"main", "job"}
  /\ main_pc = IF entry = "main" THEN "start" ELSE "none"
  /\ Fresh
  /\ Alone

(***************************************************************************)
(* main().                                                                 *)
(***************************************************************************)
\* main: sys.exit(1) when validation fails, else run once or schedule
Main ==
  /\ main_pc = "start"
  /\ IF ~validate(cfg)
     THEN main_pc' = "exited" /\ exit_code' = 1
     ELSE main_pc' \in {"run_once", "scheduled"} /\ exit_code' = exit_code
  /\ UNCHANGED << cfg, entry, phase, stop, runs, VERSION_ID, uuids, browser, explore,
                  logged_in, rows_at_start, minted >>
  /\ UNCHANGED loop_vars
  /\ UNCHANGED store_vars
  /\ UNCHANGED beside_vars

\* main returns after the single run of --run-once; an exception that left
\* run_scraper_job ends the process with status 1
MainReturn ==
  /\ main_pc = "run_once"
  /\ phase = "Returned"
  /\ main_pc' = "exited"
  /\ exit_code' = IF stop = "LaunchFailed" THEN 1 ELSE 0
  /\ UNCHANGED << cfg, entry, phase, stop, runs, VERSION_ID, uuids, browser, explore,
                  logged_in, rows_at_start, minted >>
  /\ UNCHANGED loop_vars
  /\ UNCHANGED store_vars
  /\ UNCHANGED beside_vars

(***************************************************************************)
(* run_scraper_job, step by step.                                          *)
(***************************************************************************)
\* the run returns (or raises) with the given reason
Return(reason) == phase' = "Returned" /\ stop' = reason

\* a finally clause that leaves the browser as it is
ClosedNever(b) == b

\* the finally clause: browser.close()
Closed(b) == [open |-> FALSE, closes |-> b.closes + 1]

\* run_scraper_job is called: by main --run-once, by the scheduler's trigger,
\* or directly
JobStart ==
  /\ phase \in {"Idle", "Returned"}
  /\ runs < MaxRuns
  /\ \/ entry = "job"
     \/ main_pc = "scheduled"
     \/ main_pc = "run_once" /\ runs = 0
  /\ phase' = "Validating"
  /\ stop' = ""
  /\ runs' = runs + 1
  /\ browser' = [open |-> FALSE, closes |-> 0]
  /\ explore' = NoPage
  /\ hashtag_data' = <<>>
  /\ i' = 0
  /\ successful' = 0
  /\ failed' = 0
  /\ saved_hashtags' = <<>>
  /\ errors' = <<>>
  /\ attempted' = <<>>
  /\ last_save' = <<>>
  /\ last_analysis' = <<>>
  /\ logged_in' = FALSE
  /\ rows_at_start' = rows
  /\ minted' = Append(minted, <<>>)
  /\ UNCHANGED << VERSION_ID, uuids >>
  /\ UNCHANGED process_vars
  /\ UNCHANGED store_vars
  /\ UNCHANGED beside_vars

\* a version id that is the same in every run
Uuid4Constant(drawn) == 1

\* uuid.uuid4(): a value no earlier draw returned
Uuid4(drawn) == drawn + 1

\* Config.validate() holds: VERSION_ID = str(uuid.uuid4())
ValidateOk ==
  /\ phase = "Validating"
  /\ validate(cfg)
  /\ VERSION_ID' = Uuid4(uuids)
  /\ uuids' = uuids + 1
  /\ minted' = [minted EXCEPT ![runs] = Append(@, VERSION_ID')]
  /\ phase' = "Connecting"
  /\ UNCHANGED << stop, runs, browser, explore, logged_in, rows_at_start >>
  /\ UNCHANGED process_vars
  /\ UNCHANGED loop_vars
  /\ UNCHANGED store_vars
  /\ UNCHANGED beside_vars

\* Config.validate() fails: return
ValidateFail ==
  /\ phase = "Validating"
  /\ ~validate(cfg)
  /\ Return("ConfigInvalid")
  /\ UNCHANGED << runs, VERSION_ID, uuids, browser, explore, logged_in, rows_at_start, minted >>
  /\ UNCHANGED process_vars
  /\ UNCHANGED loop_vars
  /\ UNCHANGED store_vars
  /\ UNCHANGED beside_vars

\* create_client returns or raises
Connect ==
  /\ phase = "Connecting"
  /\ \E ok \in BOOLEAN :
       IF ok THEN phase' = "Launching" /\ stop' = stop
       ELSE Return("StoreClientFailed")
  /\ UNCHANGED << runs, VERSION_ID, uuids, browser, explore, logged_in, rows_at_start, minted >>
  /\ UNCHANGED process_vars
  /\ UNCHANGED loop_vars
  /\ UNCHANGED store_vars
  /\ UNCHANGED beside_vars

\* chromium.launch, new_context, add_init_script, new_page: none of them is
\* inside the try block, so a raise leaves run_scraper_job
Launch ==
  /\ phase = "Launching"
  /\ \E result \in {"ok", "launch_raise", "setup_raise"} :
       /\ browser' = [browser EXCEPT !.open = result # "launch_raise"]
       /\ IF result = "ok" THEN phase' = "LoggingIn" /\ stop' = stop
          ELSE Return("LaunchFailed")
  /\ UNCHANGED << runs, VERSION_ID, uuids, explore, logged_in, rows_at_start, minted >>
  /\ UNCHANGED process_vars
  /\ UNCHANGED loop_vars
  /\ UNCHANGED store_vars
  /\ UNCHANGED beside_vars

\* a run that goes on to discovery although login failed
AfterLoginIgnoreFailure(ok) == "Discovering"

\* "if not login_instagram(page): return"
AfterLogin(ok) == IF ok THEN "Discovering" ELSE "Returned"

\* login_instagram returns True or False (it catches what it raises)
Login ==
  /\ phase = "LoggingIn"
  /\ \E ok \in BOOLEAN :
       /\ logged_in' = ok
       /\ phase' = AfterLogin(ok)
       /\ IF phase' = "Returned"
          THEN stop' = "LoginFailed" /\ browser' = Closed(browser)
          ELSE stop' = stop /\ browser' = browser
  /\ UNCHANGED << runs, VERSION_ID, uuids, explore, rows_at_start, minted >>
  /\ UNCHANGED process_vars
  /\ UNCHANGED loop_vars
  /\ UNCHANGED store_vars
  /\ UNCHANGED beside_vars

\* discover_trending_hashtags on one of the given pages, and "if not
\* hashtag_data: return"
Discover(pages) ==
  /\ phase = "Discovering"
  /\ \E pg \in pages :
       /\ explore' = pg
       /\ hashtag_data' = discover_trending_hashtags(pg, cfg)
  /\ IF hashtag_data' = <<>>
     THEN Return("NoHashtags") /\ browser' = Closed(browser) /\ i' = i
     ELSE phase' = "PerHashtagLoop" /\ stop' = stop /\ browser' = browser /\ i' = 1
  /\ UNCHANGED << runs, VERSION_ID, uuids, logged_in, rows_at_start, minted,
                  successful, failed, saved_hashtags, errors, attempted, last_save,
                  last_analysis >>
  /\ UNCHANGED process_vars
  /\ UNCHANGED store_vars
  /\ UNCHANGED beside_vars

\* One iteration of the loop of save_trends_to_database, on post visits and
\* multiplier draws from the given pools; after the last one, the reporting
\* code follows.
ProcessHashtag(visitPool, multPool) ==
  /\ phase = "PerHashtagLoop"
  /\ i <= Len(hashtag_data)
  /\ LET hd == hashtag_data[i]
         n == Len(Take(hd.sample_posts, cfg.POSTS_PER_HASHTAG))
     IN \E fault \in {"none", "raise"}, mult \in multPool, db \in DbOutcomes,
           visits \in [1..n -> visitPool] :
        \E r \in {TryBlock(rows, hd, cfg, VERSION_ID, now + 1, visits, mult, db, fault)} :
        \E t \in {Tallies([successful |-> successful, failed |-> failed,
                           saved_hashtags |-> saved_hashtags, errors |-> errors],
                          hd, r.outcome, r.summary)} :
          LET changed == {k \in 1..Len(r.rows) : k > Len(rows) \/ r.rows[k] # rows[k]}
              inserted == {k \in changed : k > Len(rows)}
              known == {f.key : f \in first_insert}
          IN /\ rows' = r.rows
             /\ now' = IF r.built THEN now + 1 ELSE now
             /\ attempted' = Append(attempted, hd.hashtag)
             /\ last_save' = IF r.built
                             THEN [hashtag |-> hd.hashtag, index |-> i, db |-> db,
                                   outcome |-> r.outcome]
                             ELSE <<>>
             /\ last_analysis' =
                  IF r.built
                  THEN [hashtag_data |-> hd, visits |-> visits, mult |-> mult,
                        summary |-> r.summary[1], record |-> r.record[1]]
                  ELSE <<>>
             /\ written' = written \cup
                  { [run |-> runs, key |-> r.rows[k].topic_hashtag,
                     version_id |-> r.rows[k].version_id,
                     metadata_version |-> r.rows[k].metadata.version] : k \in changed }
             /\ first_insert' = first_insert \cup
                  { [key |-> r.rows[k].topic_hashtag,
                     first_seen |-> r.rows[k].metadata.first_seen] :
                      k \in {j \in inserted : r.rows[j].topic_hashtag \notin known} }
             /\ successful' = t.successful
             /\ failed' = t.failed
             /\ saved_hashtags' = t.saved_hashtags
             /\ errors' = t.errors
             /\ i' = IndexAfter(i, r.outcome, Len(hashtag_data))
             /\ IF Caught(r.outcome)
                THEN /\ phase' = IF i' > Len(hashtag_data) THEN "Reporting" ELSE phase
                     /\ UNCHANGED << stop, browser >>
                ELSE \* "except Exception" and "finally" of run_scraper_job
                     /\ Return("CriticalError")
                     /\ browser' = Closed(browser)
  /\ UNCHANGED << runs, VERSION_ID, uuids, explore, hashtag_data, logged_in,
                  rows_at_start, minted >>
  /\ UNCHANGED process_vars
  /\ UNCHANGED beside_vars

\* the results block of save_trends_to_database, the final summary of
\* run_scraper_job and its finally clause
Report ==
  /\ phase = "Reporting"
  /\ Return("Completed")
  /\ browser' = Closed(browser)
  /\ UNCHANGED << runs, VERSION_ID, uuids, explore, logged_in, rows_at_start, minted >>
  /\ UNCHANGED process_vars
  /\ UNCHANGED loop_vars
  /\ UNCHANGED store_vars
  /\ UNCHANGED beside_vars

Next ==
  \/ Main
  \/ MainReturn
  \/ JobStart
  \/ ValidateOk
  \/ ValidateFail
  \/ Connect
  \/ Launch
  \/ Login
  \/ Discover(ExplorePages)
  \/ ProcessHashtag(PipelineVisits, PipelineMults)
  \/ Report

Spec == Init /\ [][Next]_vars

\* a step of a run that has started: the program is sequential, so a run
\* whose collaborator calls return or raise keeps taking its next step
RunStep ==
  \/ ValidateOk
  \/ ValidateFail
  \/ Connect
  \/ Launch
  \/ Login
  \/ Discover(ExplorePages)
  \/ ProcessHashtag(PipelineVisits, PipelineMults)
  \/ Report

SpecLive == Init /\ [][Next]_vars /\ WF_vars(RunStep)

(***************************************************************************)
(* Runs in which a statement of the try block of run_scraper_job raises    *)
(* outside the handlers of the functions it calls (a print to a console    *)
(* that cannot encode the text, a page that is gone).                      *)
(***************************************************************************)
\* "except Exception" logs the critical error and "finally" closes the browser
Unexpected ==
  /\ phase \in {"LoggingIn", "Discovering", "PerHashtagLoop", "Reporting"}
  /\ Return("CriticalError")
  /\ browser' = Closed(browser)
  /\ UNCHANGED << runs, VERSION_ID, uuids, explore, logged_in, rows_at_start, minted >>
  /\ UNCHANGED process_vars
  /\ UNCHANGED loop_vars
  /\ UNCHANGED store_vars
  /\ UNCHANGED beside_vars

\* a process with a valid configuration or one without a user name
InitCrash ==
  /\ Init
  /\ cfg \in {BaseConfig, [BaseConfig EXCEPT !.USERNAME = ""]}

NextCrash == Next \/ Unexpected

SpecCrash == InitCrash /\ [][NextCrash]_vars

(***************************************************************************)
(* Discovery on its own: every explore page of up to MaxPosts post links,  *)
(* under several discovery settings, from the state a run is in when       *)
(* login has succeeded.                                                    *)
(***************************************************************************)
\* what re.findall finds in one post's alt text
AltTexts ==
  { <<>>, <<TagCat>>, <<TagDog>>, <<TagCatUpper, TagDog>>, <<TagArt, TagArt>>,
    <<TagShort, TagDigits, TagLen31>>, <<TagLen30, TagDog>>, <<TagDotI30>> }

LinkKinds ==
  { [alt_tags |-> a, readable |-> TRUE] : a \in AltTexts }
  \cup { [alt_tags |-> <<>>, readable |-> FALSE] }

PagesOf(n) ==
  { [reachable |-> TRUE,
     links |-> [k \in 1..n |-> [href |-> k, alt_tags |-> f[k].alt_tags,
                                readable |-> f[k].readable]]] :
      f \in [1..n -> LinkKinds] }

AllPages == { NoPage } \cup UNION { PagesOf(n) : n \in 0..MaxPosts }

CollectConfigs ==
  { [BaseConfig EXCEPT !.MIN_HASHTAG_FREQUENCY = m, !.TOP_HASHTAGS_TO_SAVE = t,
                       !.POSTS_PER_HASHTAG = pp, !.POSTS_TO_SCAN = ps] :
      m \in {1, 2}, t \in {2, 10}, pp \in {1, 3}, ps \in {2, 400} }

\* the state of a run whose login has succeeded
AtDiscovery ==
  /\ entry = "job"
  /\ main_pc = "none"
  /\ exit_code = -1
  /\ phase = "Discovering"
  /\ stop = ""
  /\ runs = 1
  /\ VERSION_ID = 1
  /\ uuids = 1
  /\ now = 0
  /\ rows = <<>>
  /\ browser = [open |-> TRUE, closes |-> 0]
  /\ explore = NoPage
  /\ hashtag_data = <<>>
  /\ i = 0
  /\ successful = 0
  /\ failed = 0
  /\ saved_hashtags = <<>>
  /\ errors = <<>>
  /\ logged_in = TRUE
  /\ rows_at_start = <<>>
  /\ minted = << <<1>> >>
  /\ written = {}
  /\ attempted = <<>>
  /\ last_save = <<>>
  /\ last_analysis = <<>>
  /\ first_insert = {}
  /\ Alone

InitCollect ==
  /\ cfg \in CollectConfigs
  /\ AtDiscovery

NextCollect == Discover(AllPages)

SpecCollect == InitCollect /\ [][NextCollect]_vars

(***************************************************************************)
(* The categories of discovered hashtags: explore pages with one post      *)
(* whose hashtag is made of 1 to MaxWords words, some of them keywords of  *)
(* one or several categories.                                              *)
(***************************************************************************)
CategoryWords ==
  { <<"T", "e", "c", "h">>, <<"l", "i", "f", "e">>, <<"a", "r", "t">>, <<"f", "i", "t">>,
    <<"o", "u", "t">>, <<"c", "a", "t">>, <<"F", "O", "O", "D">>, <<"g", "y", "m">>,
    <<"s", "h", "o", "w">>, <<"x", "y", "z">> }

CategoryTags ==
  UNION { { Flatten(ws) : ws \in [1..n -> CategoryWords] } : n \in 1..MaxWords }

CategoryPages == { [reachable |-> TRUE, links |-> << Link(1, <<t>>) >>] : t \in CategoryTags }

InitCategorize ==
  /\ cfg = BaseConfig
  /\ AtDiscovery

NextCategorize == Discover(CategoryPages)

SpecCategorize == InitCategorize /\ [][NextCategorize]_vars

(***************************************************************************)
(* The per-hashtag loop on its own: one discovered hashtag met on 1 to     *)
(* MaxFrequency posts, sample sizes 0 to MaxSample, every kind of post     *)
(* visit, and a table that is empty or already holds the hashtag's row.    *)
(***************************************************************************)
LoopVisits ==
  { [read |-> ReadPhoto, rnd |-> RndLow], [read |-> ReadVideo, rnd |-> RndLow],
    [read |-> ReadVideoNoViews, rnd |-> RndMixed], [read |-> ReadNoLikes, rnd |-> RndHigh],
    [read |-> ReadNavFail, rnd |-> RndLow], [read |-> ReadNavFail, rnd |-> RndMixed] }

LoopMults == {150, 250}

LoopConfigs == { [BaseConfig EXCEPT !.POSTS_PER_HASHTAG = pp] : pp \in 0..MaxSample }

\* an explore page on which f posts carry the hashtag 'cat'
LoopPage(f) == [reachable |-> TRUE, links |-> [k \in 1..f |-> Link(k, <<TagCat>>)]]

\* the row of '#cat' as an earlier version of the scraper stored it, with the
\* sentiment columns since filled in by another writer of the table
StoredRow ==
  LET hd == collect(LoopPage(1).links, BaseConfig)[1]
      old == Payload(from_instagram_data(hd, FrequencySummary(1, 0), 0, 0, BaseConfig))
  IN [old EXCEPT !.platform = "instagram", !.sentiment_polarity = 8,
                 !.sentiment_label = "positive"]

StoredTables == { <<>>, <<StoredRow>> }

InitLoop ==
  /\ cfg \in LoopConfigs
  /\ entry = "job"
  /\ main_pc = "none"
  /\ exit_code = -1
  /\ phase = "PerHashtagLoop"
  /\ stop = ""
  /\ runs = 1
  /\ VERSION_ID = 1
  /\ uuids = 1
  /\ now = 0
  /\ rows \in StoredTables
  /\ browser = [open |-> TRUE, closes |-> 0]
  /\ explore \in { LoopPage(f) : f \in 1..MaxFrequency }
  /\ hashtag_data = discover_trending_hashtags(explore, cfg)
  /\ i = 1
  /\ successful = 0
  /\ failed = 0
  /\ saved_hashtags = <<>>
  /\ errors = <<>>
  /\ logged_in = TRUE
  /\ rows_at_start = rows
  /\ minted = << <<1>> >>
  /\ written = {}
  /\ attempted = <<>>
  /\ last_save = <<>>
  /\ last_analysis = <<>>
  /\ first_insert = {}
  /\ Alone

NextLoop ==
  \/ ProcessHashtag(LoopVisits, LoopMults)
  \/ Report

SpecLoop == InitLoop /\ [][NextLoop]_vars

(***************************************************************************)
(* Pipeline instances side by side: MaxRunners processes, each saving one  *)
(* TrendRecord of 'cat' or 'dog' to the same table, the two requests of    *)
(* save_to_supabase being separate steps.                                  *)
(***************************************************************************)
RaceTags == {TagCat, TagDog}

\* the TrendRecord instance p builds for a hashtag it met on one post
RaceRecord(p, tag) ==
  LET hd == collect(<< Link(1, <<tag>>) >>, BaseConfig)[1]
      engagement_data ==
        analyze_hashtag_engagement(hd, BaseConfig, << [read |-> ReadPhoto, rnd |-> RndLow] >>, 150)
  IN from_instagram_data(hd, engagement_data, p, p, BaseConfig)

InitRace ==
  /\ cfg = BaseConfig
  /\ entry = "job"
  /\ main_pc = "none"
  /\ exit_code = -1
  /\ phase = "Idle"
  /\ stop = ""
  /\ runs = 0
  /\ VERSION_ID = 0
  /\ uuids = 0
  /\ now = 0
  /\ rows \in StoredTables
  /\ browser = [open |-> FALSE, closes |-> 0]
  /\ explore = NoPage
  /\ hashtag_data = <<>>
  /\ i = 0
  /\ successful = 0
  /\ failed = 0
  /\ saved_hashtags = <<>>
  /\ errors = <<>>
  /\ logged_in = FALSE
  /\ rows_at_start = rows
  /\ minted = <<>>
  /\ written = {}
  /\ attempted = <<>>
  /\ last_save = <<>>
  /\ last_analysis = <<>>
  /\ first_insert = {}
  /\ \E tags \in [1..MaxRunners -> RaceTags] :
       runners = [p \in 1..MaxRunners |->
                    [pc |-> "select", trend_record |-> RaceRecord(p, tags[p]),
                     existing_trend |-> <<>>, wrote |-> FALSE, outcome |-> ""]]
  /\ scheduler = <<>>

\* instance p sends the lookup of its record's key; a raise is caught by
\* "except Exception" and the save returns False
RunnerSelect(p) ==
  /\ runners[p].pc = "select"
  /\ \E select \in {"ok", "raise"} :
       runners' = [runners EXCEPT ![p] =
                     IF select = "raise"
                     THEN [@ EXCEPT !.pc = "done", !.outcome = "False"]
                     ELSE [@ EXCEPT !.pc = "write",
                                    !.existing_trend =
                                      SaveSelect(rows, runners[p].trend_record)]]
  /\ UNCHANGED << phase, stop, runs, VERSION_ID, uuids, browser, explore, logged_in,
                  rows_at_start, minted, scheduler >>
  /\ UNCHANGED process_vars
  /\ UNCHANGED loop_vars
  /\ UNCHANGED store_vars

\* instance p sends the update or the insert its lookup chose, and returns
RunnerWrite(p) ==
  /\ runners[p].pc = "write"
  /\ \E write \in {"ok", "no_data", "raise", "raise_applied"} :
       /\ rows' = SaveWrite(rows, runners[p].existing_trend, runners[p].trend_record, write)
       /\ runners' = [runners EXCEPT ![p] =
                        [@ EXCEPT !.pc = "done",
                                  !.wrote = write \in {"ok", "raise_applied"},
                                  !.outcome = IF write = "ok" THEN "True" ELSE "False"]]
  /\ UNCHANGED << phase, stop, runs, VERSION_ID, uuids, browser, explore, logged_in,
                  rows_at_start, minted, scheduler, written, first_insert, now >>
  /\ UNCHANGED process_vars
  /\ UNCHANGED loop_vars

NextRace == \E p \in 1..MaxRunners : RunnerSelect(p) \/ RunnerWrite(p)

SpecRace == InitRace /\ [][NextRace]_vars

(***************************************************************************)
(* The scheduled mode of main(): the trigger of the job under every        *)
(* SCHEDULE_HOURS from 1 to MaxScheduleHours, the scheduler started at any *)
(* hour of a day and followed hour by hour up to MaxClock.                 *)
(***************************************************************************)
ScheduleConfigs ==
  { [BaseConfig EXCEPT !.SCHEDULE_HOURS = h] : h \in 1..MaxScheduleHours }

\* CronTrigger(hour='*/N') at the full hour `clock` (counted from a
\* midnight): the expression */N matches the hours of the day 0, N, 2N, ...
\* up to 23, on every day, at minute 0 and second 0
CronTrigger(schedule_hours, clock) == ((clock % 24) % schedule_hours) = 0

\* main() has validated the configuration, added the job and called
\* scheduler.start() at some hour of the first day
InitSchedule ==
  /\ cfg \in ScheduleConfigs
  /\ entry = "main"
  /\ main_pc = "scheduled"
  /\ Fresh
  /\ runners = <<>>
  /\ \E start \in 0..23 :
       scheduler = [clock |-> start, fired |-> 0, last |-> -1, gap |-> 0]

\* the next full hour comes; when the trigger matches it the scheduler fires
\* the job: `last` is the hour of the last firing, `gap` the hours between
\* the last two firings (0 while there are fewer than two)
SchedulerHour ==
  /\ main_pc = "scheduled"
  /\ scheduler # <<>>
  /\ scheduler.clock < MaxClock
  /\ LET t == scheduler.clock + 1
     IN scheduler' =
          IF CronTrigger(cfg.SCHEDULE_HOURS, t)
          THEN [clock |-> t, fired |-> scheduler.fired + 1, last |-> t,
                gap |-> IF scheduler.last < 0 THEN 0 ELSE t - scheduler.last]
          ELSE [scheduler EXCEPT !.clock = t]
  /\ UNCHANGED << phase, stop, runs, VERSION_ID, uuids, browser, explore, logged_in,
                  rows_at_start, minted, runners >>
  /\ UNCHANGED process_vars
  /\ UNCHANGED loop_vars
  /\ UNCHANGED store_vars

NextSchedule == SchedulerHour

SpecSchedule == InitSchedule /\ [][NextSchedule]_vars

(***************************************************************************)
(* Properties.                                                             *)
(***************************************************************************)
KeyOf(hashtag) == <<"#">> \o hashtag

RowsOf(key) == {k \in 1..Len(rows) : rows[k].topic_hashtag = key}

RunEnded == phase = "Returned"

\* C1: a row's stored first_seen (metadata.first_seen) always equals the
\* first_seen its key was first inserted with, whatever later upserts of the
\* key did.
C1_FirstSeenKept ==
  \A f \in first_insert : \A k \in RowsOf(f.key) :
     rows[k].metadata.first_seen = f.first_seen

\* C2: the table never holds two rows with the same topic_hashtag, and an
\* iteration whose key is already in the table leaves the number of rows as
\* it is, also when its store requests fail.
C2_OneRowPerKey ==
  /\ [](\A j, k \in 1..Len(rows) : rows[j].topic_hashtag = rows[k].topic_hashtag => j = k)
  /\ [][ (phase = "PerHashtagLoop" /\ RowsOf(KeyOf(hashtag_data[i].hashtag)) # {})
           => Len(rows') = Len(rows) ]_vars

\* a key was inserted by one run and written again by a later one, and some
\* save of the current run failed
C2_Witness ==
  /\ \E w1, w2 \in written : w1.key = w2.key /\ w1.run < w2.run
  /\ failed > 0
  /\ Len(rows) = 2

\* C3: a run mints at most one version id, exactly one once it has passed
\* validation; every row a run writes carries the id that run minted, in
\* version_id and in metadata.version; rows written by different runs carry
\* different ids.
C3_OneVersionPerRun ==
  /\ \A r \in 1..Len(minted) :
       /\ Len(minted[r]) <= 1
       /\ (validate(cfg) /\ (r < runs \/ phase # "Validating")) => Len(minted[r]) = 1
  /\ \A w \in written :
       /\ Len(minted[w.run]) = 1
       /\ w.version_id = minted[w.run][1]
       /\ w.metadata_version = minted[w.run][1]
  /\ \A w1, w2 \in written : w1.run # w2.run => w1.version_id # w2.version_id

\* two runs have written rows, the second one two of them
C3_Witness ==
  /\ \E w1, w2 \in written : w1.run = 1 /\ w2.run = 2
  /\ Cardinality({w \in written : w.run = 2}) = 2

Hashtags(list) == [k \in 1..Len(list) |-> list[k].hashtag]

\* C4: while the loop runs, the hashtags attempted so far are exactly the
\* first i-1 of the ranked list, in order; when it is over every hashtag of
\* the list has been attempted once, in order; and a run that entered the
\* loop ends completed, never failed.
C4_EveryHashtagAttempted ==
  /\ phase = "PerHashtagLoop" => attempted = SubSeq(Hashtags(hashtag_data), 1, i - 1)
  /\ (phase = "Reporting" \/ (RunEnded /\ hashtag_data # <<>>))
       => attempted = Hashtags(hashtag_data)
  /\ (RunEnded /\ hashtag_data # <<>>) => stop = "Completed"

\* the first hashtag of a list of two raised, and the second was saved
C4_Witness ==
  /\ phase = "Reporting"
  /\ Len(hashtag_data) = 2
  /\ errors = << [hashtag |-> hashtag_data[1].hashtag, reason |-> "exception"] >>
  /\ successful = 1

StoreFailed(db) == db.select = "raise" \/ db.write # "ok"

\* C5: save_to_supabase returns True or False and never raises; when a store
\* request of the call failed it returned False, the loop has recorded the
\* hashtag with "Database save failed" as its last error, and has moved on
\* to the next hashtag (or to reporting after the last one).
C5_StoreFailureReported ==
  last_save # <<>> =>
    /\ last_save.outcome \in {"True", "False"}
    /\ StoreFailed(last_save.db) =>
         /\ last_save.outcome = "False"
         /\ errors # <<>>
         /\ errors[Len(errors)] =
              [hashtag |-> last_save.hashtag, reason |-> "Database save failed"]
         /\ failed = Len(errors)
    /\ i = last_save.index + 1
    /\ IF last_save.index < Len(hashtag_data)
       THEN phase = "PerHashtagLoop"
       ELSE phase = "Reporting" \/ (RunEnded /\ stop = "Completed")

\* the insert of the first hashtag raised and the loop is at the second
C5_Witness ==
  /\ last_save # <<>>
  /\ last_save.db.write = "raise"
  /\ last_save.index = 1
  /\ phase = "PerHashtagLoop"
  /\ i = 2

\* C6: the table differs from what it was when the run started only if, in
\* this run, validation held, login succeeded and discovery returned a
\* non-empty list; a run that ended at login or with an empty list left the
\* table as it was.
C6_NoWriteBeforeDiscovery ==
  /\ (phase # "Idle" /\ rows # rows_at_start)
       => (validate(cfg) /\ logged_in /\ hashtag_data # <<>>)
  /\ (RunEnded /\ stop \in {"LoginFailed", "NoHashtags"}) => rows = rows_at_start

\* a second run found nothing on a reachable explore page and left the rows
\* of the first run alone
C6_Witness ==
  /\ RunEnded
  /\ stop = "NoHashtags"
  /\ explore.reachable
  /\ runs = 2
  /\ rows # <<>>

Blank(str) == str = ""

ConfigInvalid(c) ==
  \/ Blank(c.USERNAME) \/ Blank(c.PASSWORD)
  \/ Blank(c.SUPABASE_URL) \/ Blank(c.SUPABASE_KEY)
  \/ c.SCROLL_COUNT < 1 \/ c.POSTS_TO_SCAN < 1

\* C8: validate returns False exactly for the configurations with a blank
\* credential or store setting or a scraping parameter below 1; with such a
\* configuration no version id is ever minted, the table is never written,
\* a called run_scraper_job returns at validation, and main starts no run
\* and exits with status 1.
C8_ValidationFailsClosed ==
  /\ validate(cfg) <=> ~ConfigInvalid(cfg)
  /\ ConfigInvalid(cfg) =>
       /\ VERSION_ID = 0 /\ uuids = 0
       /\ \A r \in 1..Len(minted) : minted[r] = <<>>
       /\ rows = <<>> /\ written = {}
       /\ phase \in {"Idle", "Validating", "Returned"}
       /\ RunEnded => stop = "ConfigInvalid"
       /\ entry = "main" => (runs = 0 /\ main_pc \in {"start", "exited"})
       /\ main_pc = "exited" => exit_code = 1

\* main has exited with status 1 on a configuration whose only flaw is
\* SCROLL_COUNT = 0
C8_Witness ==
  /\ main_pc = "exited"
  /\ exit_code = 1
  /\ cfg.SCROLL_COUNT = 0
  /\ cfg = [BaseConfig EXCEPT !.SCROLL_COUNT = 0]

\* the tags observed on the explore page of the run, in the order met: the
\* findall results of the readable links among the first POSTS_TO_SCAN
Observed ==
  LET links == Take(explore.links, cfg.POSTS_TO_SCAN)
  IN Flatten([k \in 1..Len(links) |->
                IF links[k].readable THEN links[k].alt_tags ELSE <<>>])

\* a tag the discovery is to leave out
BadTag(tag) == IsDigit(tag) \/ Len(tag) < 3 \/ Len(tag) > 30

\* the places of Observed that count for the output tag t
Occurrences(t) == {j \in 1..Len(Observed) : ~BadTag(Observed[j]) /\ Lower(Observed[j]) = t}

\* C9: no tag of the discovery output is all digits, shorter than 3 or longer
\* than 30 characters, and the frequency of an output tag counts only the
\* observed tags that are none of these.
C9_BadTagsExcluded ==
  \A k \in 1..Len(hashtag_data) :
     /\ ~BadTag(hashtag_data[k].hashtag)
     /\ hashtag_data[k].frequency = Cardinality(Occurrences(hashtag_data[k].hashtag))

\* what does hold: no observed tag that is all digits, too short or too long
\* is counted, and every output tag is the lowercase form of an observed tag
\* that is none of these
ObservedBadTagsExcluded ==
  \A k \in 1..Len(hashtag_data) :
     /\ Occurrences(hashtag_data[k].hashtag) # {}
     /\ hashtag_data[k].frequency = Cardinality(Occurrences(hashtag_data[k].hashtag))

\* the place where the output tag t was first met
FirstMet(t) == CHOOSE j \in Occurrences(t) : \A m \in Occurrences(t) : j <= m

\* C10: the discovery output is in order of non-increasing frequency, and of
\* two tags of equal frequency the one first met earlier comes first.
C10_RankedStable ==
  \A j, k \in 1..Len(hashtag_data) :
     j < k =>
       /\ hashtag_data[j].frequency >= hashtag_data[k].frequency
       /\ hashtag_data[j].frequency = hashtag_data[k].frequency
            => FirstMet(hashtag_data[j].hashtag) < FirstMet(hashtag_data[k].hashtag)

\* three tags came out: the first two tie, and the second was first met after
\* the third, which is less frequent
C10_Witness ==
  /\ Len(hashtag_data) = 3
  /\ hashtag_data[1].frequency = hashtag_data[2].frequency
  /\ hashtag_data[2].frequency > hashtag_data[3].frequency
  /\ FirstMet(hashtag_data[3].hashtag) < FirstMet(hashtag_data[2].hashtag)

\* the tags the tally holds: the lowercase forms of the observed tags that
\* pass the filter
TalliedTags == {Lower(Observed[j]) : j \in {m \in 1..Len(Observed) : ~BadTag(Observed[m])}}

\* C11: the discovery output holds min(TOP_HASHTAGS_TO_SAVE, number of
\* qualifying tags) distinct tags, a qualifying tag being a lowercased tag
\* met at least MIN_HASHTAG_FREQUENCY times; each is reported with the
\* number of times it was met, and every qualifying tag that is left out is
\* ranked behind every tag of the output (it was met less often, or as often
\* and first met later).
C11_TopQualifying ==
  LET out == Hashtags(hashtag_data)
      count == [t \in TalliedTags |-> Cardinality(Occurrences(t))]
      first == [t \in TalliedTags |-> FirstMet(t)]
      qualifying == {t \in TalliedTags : count[t] >= cfg.MIN_HASHTAG_FREQUENCY}
      ahead(a, b) == count[a] > count[b] \/ (count[a] = count[b] /\ first[a] < first[b])
  IN /\ Len(out) = Min(cfg.TOP_HASHTAGS_TO_SAVE, Cardinality(qualifying))
     /\ \A k \in 1..Len(out) :
          /\ out[k] \in qualifying
          /\ hashtag_data[k].frequency = count[out[k]]
     /\ \A j, k \in 1..Len(out) : out[j] = out[k] => j = k
     /\ \A q \in qualifying :
          (\A k \in 1..Len(out) : out[k] # q) => \A k \in 1..Len(out) : ahead(out[k], q)

\* a tag met three times and another met once, minimum frequency 2: only the
\* first comes out, with frequency 3
C11_Witness ==
  /\ cfg.MIN_HASHTAG_FREQUENCY = 2
  /\ Cardinality(TalliedTags) = 2
  /\ Len(hashtag_data) = 1
  /\ hashtag_data[1].frequency = 3

\* the observed (tag, post) pairs of the run's explore page, in the order met
ObservedPairs ==
  LET links == Take(explore.links, cfg.POSTS_TO_SCAN)
  IN Flatten([k \in 1..Len(links) |->
                IF links[k].readable
                THEN [n \in 1..Len(links[k].alt_tags) |->
                        [tag |-> links[k].alt_tags[n], post |-> links[k].href]]
                ELSE <<>>])

\* the posts the output tag t was met on, one entry per observation, in order
PostsOf(t) ==
  LET idx == SelectIdx([j \in 1..Len(ObservedPairs) |->
                          ~BadTag(ObservedPairs[j].tag) /\ Lower(ObservedPairs[j].tag) = t])
  IN [n \in 1..Len(idx) |-> ObservedPairs[idx[n]].post]

\* C12: of every observation of the discovery output, sample_posts is the
\* first POSTS_PER_HASHTAG entries (all of them if there are fewer) of the
\* list of posts the tag was met on, and posts_count is the length of that
\* whole list.
C12_SampleIsPrefix ==
  \A k \in 1..Len(hashtag_data) :
     LET full == PostsOf(hashtag_data[k].hashtag)
     IN /\ hashtag_data[k].sample_posts =
             SubSeq(full, 1, Min(Len(full), cfg.POSTS_PER_HASHTAG))
        /\ Len(hashtag_data[k].sample_posts) <= cfg.POSTS_PER_HASHTAG
        /\ hashtag_data[k].posts_count = Len(full)

\* a tag met on three posts with a sample size of 1: the sample is the first
\* post and posts_count is 3
C12_Witness ==
  /\ cfg.POSTS_PER_HASHTAG = 1
  /\ hashtag_data # <<>>
  /\ hashtag_data[1].posts_count = 3
  /\ hashtag_data[1].sample_posts = <<1>>

\* an iteration has run the aggregation
Analysed == last_analysis # <<>>

\* the samples the last aggregation appended: what get_post_engagement
\* returned for each visited post
Samples ==
  [k \in 1..Len(last_analysis.visits) |->
     get_post_engagement(last_analysis.visits[k].read, last_analysis.visits[k].rnd)]

\* C13: an aggregation that visited no post returns avg_likes = 1000 f,
\* avg_comments = 50 f, avg_engagement = 1050 f, avg_views = 20000 f and
\* video_count = 0, f being the frequency of the observation.
C13_NoSampleLinear ==
  (Analysed /\ Len(last_analysis.visits) = 0) =>
    LET f == last_analysis.hashtag_data.frequency
        summary == last_analysis.summary
    IN /\ summary.avg_likes = [num |-> 1000 * f, den |-> 1]
       /\ summary.avg_comments = [num |-> 50 * f, den |-> 1]
       /\ summary.avg_engagement = [num |-> 1050 * f, den |-> 1]
       /\ summary.avg_views = [num |-> 20000 * f, den |-> 1]
       /\ summary.video_count = 0

\* frequency 4 and no sample: avg_likes 4000 and avg_comments 200
C13_Witness ==
  /\ Analysed
  /\ last_analysis.hashtag_data.sample_posts = <<>>
  /\ last_analysis.hashtag_data.frequency = 4
  /\ last_analysis.summary.avg_likes = [num |-> 4000, den |-> 1]
  /\ last_analysis.summary.avg_comments = [num |-> 200, den |-> 1]

\* the visits of the last aggregation whose page showed a video
VideoVisits ==
  SelectIdx([k \in 1..Len(last_analysis.visits) |->
               last_analysis.visits[k].read.nav_ok /\ last_analysis.visits[k].read.is_video])

\* C14: when a visited post is a video, avg_views is the mean of the view
\* counts read from the pages of the visited videos, a video without a view
\* count counting as 0.
C14_MeasuredViewsOnly ==
  (Analysed /\ VideoVisits # <<>>) =>
    last_analysis.summary.avg_views =
      Frac(SumSeq([j \in 1..Len(VideoVisits) |->
                     last_analysis.visits[VideoVisits[j]].read.views]),
           Len(VideoVisits))

\* what does hold: with a video among the samples, avg_views is the mean of
\* the views of the is_video samples as get_post_engagement returned them,
\* whatever multiplier the aggregation drew
MeanOfVideoSampleViews ==
  LET videos == SelectIdx([k \in 1..Len(Samples) |-> Samples[k].is_video])
  IN (Analysed /\ videos # <<>>) =>
       /\ last_analysis.summary.video_count = Len(videos)
       /\ last_analysis.summary.avg_views =
            Frac(SumSeq([j \in 1..Len(videos) |-> Samples[videos[j]].views]), Len(videos))

\* C15: an aggregation over at least one sample returns total_engagement =
\* the sum of likes + comments of the samples, avg_likes and avg_comments the
\* means of their likes and comments, and avg_engagement = avg_likes +
\* avg_comments.
C15_TotalsFromLikesAndComments ==
  (Analysed /\ Len(Samples) > 0) =>
    LET n == Len(Samples)
        likes == SumSeq([k \in 1..n |-> Samples[k].likes])
        comments == SumSeq([k \in 1..n |-> Samples[k].comments])
        summary == last_analysis.summary
    IN /\ summary.total_engagement = Frac(likes + comments, 1)
       /\ summary.avg_likes = Frac(likes, n)
       /\ summary.avg_comments = Frac(comments, n)
       /\ summary.avg_engagement = Frac(likes + comments, n)

\* what does hold: the means of likes and of comments, and total_engagement
\* and avg_engagement as sum and mean of the samples' total_engagement
TotalsFromSampleTotals ==
  (Analysed /\ Len(Samples) > 0) =>
    LET n == Len(Samples)
        total == SumSeq([k \in 1..n |-> Samples[k].total_engagement])
        summary == last_analysis.summary
    IN /\ summary.total_engagement = Frac(total, 1)
       /\ summary.avg_engagement = Frac(total, n)
       /\ summary.avg_likes = Frac(SumSeq([k \in 1..n |-> Samples[k].likes]), n)
       /\ summary.avg_comments = Frac(SumSeq([k \in 1..n |-> Samples[k].comments]), n)

\* x is a fraction that is at least 0
NonNegative(x) == x.num \in Nat /\ x.den \in Nat \ {0}

\* C17: the record an iteration builds has likes, comments and views that
\* are integers >= 0 and an engagement_score >= 0, and so has every row of
\* the table in its engagement_score and views columns and in the likes and
\* comments of its metadata.
C17_EngagementNonNegative ==
  /\ Analysed =>
       /\ last_analysis.record.likes \in Nat
       /\ last_analysis.record.comments \in Nat
       /\ last_analysis.record.views \in Nat
       /\ NonNegative(last_analysis.record.engagement_score)
  /\ \A k \in 1..Len(rows) :
       /\ rows[k].views \in Nat
       /\ NonNegative(rows[k].engagement_score)
       /\ rows[k].metadata.likes \in Nat
       /\ rows[k].metadata.comments \in Nat

\* a row was written from a record whose only sample is the result of the
\* except branch of get_post_engagement
C17_Witness ==
  /\ Analysed
  /\ Len(last_analysis.visits) = 1
  /\ ~last_analysis.visits[1].read.nav_ok
  /\ \E k \in 1..Len(rows) :
       /\ rows[k].version_id = VERSION_ID
       /\ rows[k].metadata.likes = last_analysis.record.likes

\* a run is under way
Running == phase \notin {"Idle", "Returned"}

\* C18: a run that is under way eventually returns; while its loop runs the
\* iterations begun are those of the hashtags before the current one, and a
\* run that went through its loop began exactly one iteration per hashtag of
\* the ranked list; once a run has returned, the table, the discovery result
\* and the record of visits and attempts stay as they are until
\* run_scraper_job is called again.
C18_RunsTerminate ==
  /\ Running ~> RunEnded
  /\ [](phase = "PerHashtagLoop" => (i <= Len(hashtag_data) /\ Len(attempted) = i - 1))
  /\ []((phase = "Reporting" \/ (RunEnded /\ stop = "Completed"))
          => Len(attempted) = Len(hashtag_data))
  /\ [][ RunEnded =>
           \/ (phase' = "Validating" /\ runs' = runs + 1)
           \/ /\ RunEnded'
              /\ UNCHANGED << rows, explore, hashtag_data, attempted, last_save,
                              last_analysis, written, stop, runs >> ]_vars

\* a run whose two hashtags both failed has returned as completed, with the
\* table still empty
C18_Witness ==
  /\ RunEnded
  /\ stop = "Completed"
  /\ Len(hashtag_data) = 2
  /\ failed = 2
  /\ rows = <<>>

\* the hashtags the list of saved hashtags or of errors names
Named(list) == [k \in 1..Len(list) |-> list[k].hashtag]

\* C19: when the loop is over, successful + failed is the length of the
\* ranked list, the saved list has `successful` entries and the error list
\* `failed` entries, each a hashtag with a reason, and every hashtag of the
\* ranked list is named by exactly one entry of the two lists together.
C19_TalliesComplete ==
  /\ phase = "PerHashtagLoop" => successful + failed = i - 1
  /\ (phase = "Reporting" \/ (RunEnded /\ stop = "Completed")) =>
       /\ successful + failed = Len(hashtag_data)
       /\ Len(saved_hashtags) = successful
       /\ Len(errors) = failed
       /\ \A e \in 1..Len(errors) :
            errors[e].reason \in {"Database save failed", "exception"}
       /\ \A k \in 1..Len(hashtag_data) :
            Cardinality({j \in 1..Len(saved_hashtags) :
                           saved_hashtags[j].hashtag = hashtag_data[k].hashtag})
            + Cardinality({j \in 1..Len(errors) :
                             errors[j].hashtag = hashtag_data[k].hashtag}) = 1

\* at reporting, the first of two hashtags is saved and the second is in the
\* error list because its save failed
C19_Witness ==
  /\ phase = "Reporting"
  /\ Len(hashtag_data) = 2
  /\ Named(saved_hashtags) = << hashtag_data[1].hashtag >>
  /\ errors = << [hashtag |-> hashtag_data[2].hashtag, reason |-> "Database save failed"] >>

\* row k after a step is row k before it but for the six columns the update
\* names, which hold the values of the payload
SixColumnsFrom(before, after, payload) ==
  after = [before EXCEPT !.engagement_score = payload.engagement_score,
                         !.posts = payload.posts,
                         !.views = payload.views,
                         !.metadata = payload.metadata,
                         !.scraped_at = payload.scraped_at,
                         !.version_id = payload.version_id]

\* C20: a step never removes a row and never changes the platform,
\* topic_hashtag, sentiment_polarity or sentiment_label of a row, and a row
\* it changes is afterwards the stored row with engagement_score, posts,
\* views, metadata, scraped_at and version_id taken from the payload of the
\* record just built.
C20_UpdateFrame ==
  [][ /\ Len(rows') >= Len(rows)
      /\ \A k \in 1..Len(rows) :
           /\ rows'[k].platform = rows[k].platform
           /\ rows'[k].topic_hashtag = rows[k].topic_hashtag
           /\ rows'[k].sentiment_polarity = rows[k].sentiment_polarity
           /\ rows'[k].sentiment_label = rows[k].sentiment_label
           /\ rows'[k] # rows[k] =>
                SixColumnsFrom(rows[k], rows'[k], Payload(last_analysis'.record)) ]_vars

\* the stored row of '#cat' has been updated by the run and still has the
\* platform and sentiment values it was stored with
C20_Witness ==
  /\ Len(rows) = 1
  /\ rows[1].version_id = VERSION_ID
  /\ rows[1].metadata.version = VERSION_ID
  /\ rows[1].platform = "instagram"
  /\ rows[1].sentiment_polarity = 8
  /\ rows[1].sentiment_label = "positive"

TagTechLife == <<"t", "e", "c", "h", "l", "i", "f", "e">>

\* a keyword of the n-th category of the table occurs in the text
Hit(n, text) ==
  \E k \in 1..Len(HASHTAG_CATEGORIES[n].keywords) :
     Contains(HASHTAG_CATEGORIES[n].keywords[k], text)

\* C16: the category of every discovered hashtag is a label of the table or
\* 'general'; it is 'general' exactly when no keyword of any category occurs
\* in the lowercased tag, and otherwise it is the label of the first category
\* of the table one of whose keywords occurs in it; 'techlife' is
\* 'technology'.
C16_FirstCategoryWins ==
  \A k \in 1..Len(hashtag_data) :
     LET text == Lower(hashtag_data[k].hashtag)
         category == hashtag_data[k].category
         matching == {n \in 1..Len(HASHTAG_CATEGORIES) : Hit(n, text)}
     IN /\ category \in {"general"} \cup
                        {HASHTAG_CATEGORIES[n].category : n \in 1..Len(HASHTAG_CATEGORIES)}
        /\ category = "general" <=> matching = {}
        /\ \A n \in matching :
             (\A m \in matching : n <= m) => category = HASHTAG_CATEGORIES[n].category
        /\ hashtag_data[k].hashtag = TagTechLife => category = "technology"

\* 'Techlife' was met: it holds keywords of technology and of lifestyle, and
\* its category is technology
C16_Witness ==
  /\ hashtag_data # <<>>
  /\ hashtag_data[1].hashtag = TagTechLife
  /\ Cardinality({n \in 1..Len(HASHTAG_CATEGORIES) : Hit(n, TagTechLife)}) >= 2
  /\ \E n \in 1..Len(HASHTAG_CATEGORIES) :
       HASHTAG_CATEGORIES[n].category = "lifestyle" /\ Hit(n, TagTechLife)
  /\ hashtag_data[1].category = "technology"

\* the key of instance p's record
RunnerKey(p) == runners[p].trend_record.hashtags[1]

\* instance p looked its key up, found no row, and its insert was applied
InsertedUnseen(p) ==
  /\ runners[p].pc = "done"
  /\ runners[p].wrote
  /\ runners[p].existing_trend = <<>>

\* C21: when two pipeline instances save the same key side by side and the
\* lookup of each finds no row, each takes the insert branch, so that the
\* table then holds a row of that key for each of them: one row per key is
\* not preserved under concurrent runs.
C21_StaleLookupsBothInsert ==
  \A p \in 1..MaxRunners :
    LET unseen == {q \in 1..MaxRunners : RunnerKey(q) = RunnerKey(p) /\ InsertedUnseen(q)}
    IN InsertedUnseen(p) =>
         Cardinality(RowsOf(RunnerKey(p))) = Cardinality(RowsOf(RunnerKey(p)) \cap
                                                        1..Len(rows_at_start))
                                             + Cardinality(unseen)

\* two instances have inserted the same key into a table that had no row of it
C21_Witness ==
  \E p, q \in 1..MaxRunners :
    /\ p # q
    /\ RunnerKey(p) = RunnerKey(q)
    /\ InsertedUnseen(p) /\ InsertedUnseen(q)
    /\ rows_at_start = <<>>
    /\ Cardinality(RowsOf(RunnerKey(p))) = 2

\* the keys of the dict get_post_engagement returns
SampleFields == {"likes", "comments", "views", "total_engagement", "is_video"}

\* a post page of the last aggregation could not be read
SomeVisitFailed ==
  Analysed /\ \E k \in 1..Len(last_analysis.visits) : ~last_analysis.visits[k].read.nav_ok

\* C22: a post whose page cannot be read does not stop the aggregation:
\* get_post_engagement returns a sample with all of likes, comments, views,
\* total_engagement and is_video for every visited post, the summary is the
\* one over all these samples, and the iteration goes on to the store write,
\* which puts the record's row into the table when the store accepts it.
C22_PostFailureAbsorbed ==
  Analysed =>
    LET n == Len(last_analysis.visits)
        summary == last_analysis.summary
        hd == last_analysis.hashtag_data
    IN /\ n = Len(Take(hd.sample_posts, cfg.POSTS_PER_HASHTAG))
       /\ \A k \in 1..n :
            /\ DOMAIN Samples[k] = SampleFields
            /\ Samples[k].likes \in Nat /\ Samples[k].comments \in Nat
            /\ Samples[k].views \in Nat /\ Samples[k].total_engagement \in Nat
            /\ Samples[k].is_video \in BOOLEAN
       /\ n > 0 =>
            /\ summary.avg_likes = Frac(SumSeq([k \in 1..n |-> Samples[k].likes]), n)
            /\ summary.total_engagement =
                 Frac(SumSeq([k \in 1..n |-> Samples[k].total_engagement]), 1)
       /\ last_save # <<>>
       /\ last_save.hashtag = hd.hashtag
       /\ last_save.db.select = "ok" /\ last_save.db.write \in {"ok", "raise_applied"} =>
            \E k \in RowsOf(KeyOf(hd.hashtag)) :
              /\ rows[k].version_id = VERSION_ID
              /\ rows[k].metadata.likes = last_analysis.record.likes

\* of two visited posts the first could not be read and the second could,
\* and the hashtag's row was written
C22_Witness ==
  /\ SomeVisitFailed
  /\ Len(last_analysis.visits) = 2
  /\ ~last_analysis.visits[1].read.nav_ok
  /\ last_analysis.visits[2].read.nav_ok
  /\ last_save # <<>>
  /\ last_save.outcome = "True"
  /\ \E k \in RowsOf(KeyOf(last_analysis.hashtag_data.hashtag)) :
       rows[k].version_id = VERSION_ID

\* a <= b for fractions with positive denominators
FracLeq(a, b) == a.num * b.den <= b.num * a.den

\* the last aggregation visited posts and none of its samples is a video
NoVideoSample ==
  /\ Analysed
  /\ Len(Samples) > 0
  /\ \A k \in 1..Len(Samples) : ~Samples[k].is_video

\* C23: when the aggregation has samples and none of them is a video,
\* avg_views lies between 15 and 25 times avg_engagement, video_count is 0,
\* and total_views is avg_views times the number of samples analysed.
C23_ViewsEstimatedFromEngagement ==
  NoVideoSample =>
    LET summary == last_analysis.summary
    IN /\ FracLeq(FracMul(Frac(15, 1), summary.avg_engagement), summary.avg_views)
       /\ FracLeq(summary.avg_views, FracMul(Frac(25, 1), summary.avg_engagement))
       /\ summary.video_count = 0
       /\ summary.total_views = FracMul(summary.avg_views, Frac(Len(Samples), 1))

\* two photo posts were analysed, one read and one whose likes were drawn,
\* and the views of the summary are an estimate above 0
C23_Witness ==
  /\ NoVideoSample
  /\ Len(Samples) = 2
  /\ last_analysis.visits[1].read = ReadPhoto
  /\ last_analysis.visits[2].read = ReadNoLikes
  /\ last_analysis.mult = 250
  /\ last_analysis.summary.avg_views.num > 0
  /\ last_analysis.summary.total_views # last_analysis.summary.avg_views

\* C24: in scheduled mode two consecutive firings of the job are exactly
\* SCHEDULE_HOURS hours apart, for every SCHEDULE_HOURS >= 1 and also from
\* the last firing of a day to the first of the next.
C24_ExactInterval ==
  (scheduler # <<>> /\ scheduler.fired >= 2) => scheduler.gap = cfg.SCHEDULE_HOURS

\* what does hold: the firings are SCHEDULE_HOURS apart when SCHEDULE_HOURS
\* divides 24, and otherwise the first firing of a day follows the last of
\* the day before after fewer hours
IntervalExactWhenDividing ==
  (scheduler # <<>> /\ scheduler.fired >= 2) =>
    /\ scheduler.gap <= cfg.SCHEDULE_HOURS
    /\ 24 % cfg.SCHEDULE_HOURS = 0 => scheduler.gap = cfg.SCHEDULE_HOURS
    /\ scheduler.gap < cfg.SCHEDULE_HOURS => scheduler.last % 24 = 0

\* the run is inside the try block of run_scraper_job
InTry == phase \in {"LoggingIn", "Discovering", "PerHashtagLoop", "Reporting"}

StoreOk == [select |-> "ok", write |-> "ok"]

\* C26: saving the same TrendRecord a second time, the store answering both
\* times, leaves the table as the first save left it: the first save inserts
\* or updates the row of the key, the second updates it with the same values
\* and returns True again.
C26_SaveIdempotent ==
  (Analysed /\ last_save.outcome = "True") =>
    LET once == save_to_supabase(rows_at_start, last_analysis.record, StoreOk)
        twice == save_to_supabase(once.rows, last_analysis.record, StoreOk)
    IN /\ once.rows = rows
       /\ once.outcome = "True"
       /\ twice.rows = once.rows
       /\ twice.outcome = "True"

\* the record of a hashtag met on two posts was saved into an empty table,
\* which now holds its row, so that a second save takes the update branch
C26_Witness ==
  /\ Analysed
  /\ last_save.outcome = "True"
  /\ rows_at_start = <<>>
  /\ Len(rows) = 1
  /\ rows[1].posts = 2
  /\ SaveSelect(rows, last_analysis.record) = <<1>>

\* the key the iteration that is about to run upserts
UpsertKey == KeyOf(hashtag_data[i].hashtag)

\* C27: an upsert of a key, whether it inserts, updates or fails, leaves
\* every row of another key as it was, and no step removes a row from the
\* table or moves one.
C27_OtherKeysUntouched ==
  [][ /\ Len(rows') >= Len(rows)
      /\ \A k \in 1..Len(rows) :
           /\ rows'[k].topic_hashtag = rows[k].topic_hashtag
           /\ (phase = "PerHashtagLoop" /\ rows[k].topic_hashtag # UpsertKey)
                => rows'[k] = rows[k]
           /\ phase # "PerHashtagLoop" => rows'[k] = rows[k] ]_vars

\* the second run has updated the row of one key while the row of another
\* key still is the one the first run inserted
C27_Witness ==
  /\ runs = 2
  /\ \E j, k \in 1..Len(rows) :
       /\ rows[j].topic_hashtag # rows[k].topic_hashtag
       /\ rows[j].version_id = VERSION_ID
       /\ j <= Len(rows_at_start)
       /\ rows[j] # rows_at_start[j]
       /\ rows[k].version_id # VERSION_ID
       /\ k <= Len(rows_at_start)
       /\ rows[k] = rows_at_start[k]
       /\ [key |-> rows[j].topic_hashtag, version_id |-> VERSION_ID] \in
            { [key |-> w.key, version_id |-> w.version_id] : w \in {x \in written : x.run = 2} }

\* C28: every observation discovery returns has posts_count = frequency >= 1
\* (a post is listed once for each time its text holds the tag), so that
\* with POSTS_PER_HASHTAG >= 1 its sample_posts is not empty and neither is
\* the sample the aggregation cuts from it: the aggregation's branch for an
\* empty sample is not taken.
C28_SamplesNeverEmpty ==
  \A k \in 1..Len(hashtag_data) :
     LET hd == hashtag_data[k]
     IN /\ hd.posts_count = hd.frequency
        /\ hd.frequency >= 1
        /\ cfg.POSTS_PER_HASHTAG >= 1 =>
             /\ hd.sample_posts # <<>>
             /\ Take(hd.sample_posts, cfg.POSTS_PER_HASHTAG) # <<>>

\* a tag that one post's text holds twice is observed with frequency 2,
\* posts_count 2 and that post twice in its sample
C28_Witness ==
  /\ cfg.POSTS_PER_HASHTAG = 3
  /\ Len(explore.links) = 1
  /\ \E k \in 1..Len(hashtag_data) :
       /\ hashtag_data[k].hashtag = TagArt
       /\ hashtag_data[k].frequency = 2
       /\ hashtag_data[k].posts_count = 2
       /\ hashtag_data[k].sample_posts = <<1, 1>>

\* the last aggregation returned from its branch for an empty sample list
EmptySampleTaken == Analysed /\ Len(last_analysis.visits) = 0

\* C29: the summary the aggregation returns for an empty sample list is,
\* field by field, the one its branch for visits that left no sample returns
\* for the same observation, total_engagement and total_views included.
C29_FallbacksAgree ==
  EmptySampleTaken =>
    last_analysis.summary = NoEngagementSummary(last_analysis.hashtag_data)

\* what does hold: the two branches agree but for total_engagement, which is
\* 0 for an empty sample list and 1050 times the frequency in the other branch
FallbacksAgreeButTotal ==
  EmptySampleTaken =>
    LET other == NoEngagementSummary(last_analysis.hashtag_data)
        f == last_analysis.hashtag_data.frequency
    IN /\ [last_analysis.summary EXCEPT !.total_engagement = other.total_engagement] = other
       /\ last_analysis.summary.total_engagement = Frac(0, 1)
       /\ other.total_engagement = Frac(1050 * f, 1)

====
